---- MODULE Spec2Model ----
(***************************************************************************)
(* Stats & analytics plane of the MCP registry (extensions/stats,          *)
(* extensions/vp): the per-source statistics store, the feedback store,    *)
(* the TTL cache and the HTTP handlers that orchestrate them.              *)
(*                                                                         *)
(* Ratings are float64 in the source; the model keeps them as exact        *)
(* rationals <<numerator, denominator>> in lowest terms.  Timestamps are   *)
(* readings of a logical clock; 0 is Go's zero time.Time.                  *)
(***************************************************************************)
EXTENDS Integers, Sequences, FiniteSets, TLC

\* ------------------------------------------------------------------ bounds
NumThreads == 2
MaxOps == 3
MaxClock == 3

\* --------------------------------------------------------------- constants
SourceRegistry == "REGISTRY"
SourceCommunity == "COMMUNITY"

Threads == 1..NumThreads
NoThread == 0
Servers == {"foo"}
RatingValues == {1, 3, 4, 5}

\* raw source strings a caller may pass to the store
SourceInputs == {"", "REGISTRY", " REGISTRY ", "COMMUNITY", "bogus"}
\* the sources UpdateRating is called with: its callers pass "" or a source
\* spelled exactly (feedback.go 62-70); "bogus" exercises the rejection
RatingSourceInputs == {"", "REGISTRY", "COMMUNITY", "bogus"}

VARIABLES
    stats,      \* server_stats collection: (server_id, source) -> document
    mu,         \* MongoDatabase.mu: the thread holding the write lock
    clock,      \* time.Now()
    pc,         \* per request goroutine: position in the running call
    req,        \* per request goroutine: arguments and locals of the call
    ops,        \* number of calls started so far
    okInstalls, \* per key: IncrementInstallCount calls that returned nil
    okRatings,  \* per key: bag of the ratings of UpdateRating calls that returned nil
    xferLog,    \* the TransferStats runs made in succession and how they ended
    cache,      \* CacheService.cache: key -> entry
    feedback,   \* server_feedback collection, in insertion order
    catalog,    \* the registry service's servers: id -> entry
    hpc,        \* per request goroutine: position in the running HTTP handler
    hreq,       \* per request goroutine: the handler's request and locals
    resp,       \* the last response written
    nreq,       \* number of HTTP requests accepted so far
    milestones, \* milestones collection, in insertion order
    mile,       \* per goroutine: position in CheckAndRecordMilestones
    adb,        \* MongoAnalyticsDatabase: its collections
    acall,      \* per goroutine: position and locals in RecordActivity or
                \* TrackAPICall
    cacheLog    \* per key: the last direct call of Set or Delete on the cache

storeVars == <<stats, mu, clock, pc, req, ops, okInstalls, okRatings, xferLog>>
httpVars == <<cache, feedback, catalog, hpc, hreq, resp, nreq>>
analyticsVars == <<milestones, mile, adb, acall, cacheLog>>
vars == <<stats, mu, clock, pc, req, ops, okInstalls, okRatings, xferLog,
          cache, feedback, catalog, hpc, hreq, resp, nreq, milestones, mile,
          adb, acall, cacheLog>>

\* ---------------------------------------------------------------- rationals
RECURSIVE GCD(_, _)
GCD(a, b) == IF b = 0 THEN a ELSE GCD(b, a % b)

RatNorm(n, d) == IF n = 0 THEN <<0, 1>> ELSE <<n \div GCD(n, d), d \div GCD(n, d)>>
RatOfInt(k) == <<k, 1>>
RatTimesInt(r, k) == RatNorm(r[1] * k, r[2])
RatPlus(r, s) == RatNorm(r[1] * s[2] + s[1] * r[2], r[2] * s[2])
RatDivInt(r, k) == RatNorm(r[1], r[2] * k)
RatLeq(r, s) == r[1] * s[2] <= s[1] * r[2]

\* ----------------------------------------------------------------- validation
AllowedSourceValues == {"REGISTRY", "COMMUNITY", "ALL", ""}

\* strings.TrimSpace on the strings the model uses
TrimSpace(s) == IF s = " REGISTRY " THEN "REGISTRY" ELSE s
ValidateSource(source) ==
    LET trimmed == TrimSpace(source)
    IN IF trimmed \in AllowedSourceValues
       THEN [ok |-> TRUE, value |-> trimmed]
       ELSE [ok |-> FALSE, value |-> ""]

\* "Default to REGISTRY if source not specified"
DefaultSource(source) == IF source = "" THEN SourceRegistry ELSE source

\* ------------------------------------------------------------------ documents
ZeroStats ==
    [installation_count |-> 0, rating |-> <<0, 1>>, rating_count |-> 0,
     first_seen |-> 0, last_updated |-> 0, active_installs |-> 0,
     source |-> "", claimed_from |-> "", claimed_to |-> ""]

NoReq ==
    [op |-> "none", key |-> <<"", "">>, source |-> "", rating |-> 0,
     cur |-> ZeroStats, tgt |-> ZeroStats, tgtExists |-> FALSE]

Found(coll, key) == key \in DOMAIN coll
FindOne(coll, key) == IF key \in DOMAIN coll THEN coll[key] ELSE ZeroStats
\* UpdateOne on the document matched by key: the written document is indexed
\* by its own (server_id, source) fields
Put(coll, key, doc) ==
    LET k2 == <<key[1], doc.source>>
    IN [k \in (DOMAIN coll \ {key}) \cup {k2} |-> IF k = k2 THEN doc ELSE coll[k]]

\* ------------------------------------------------------------------- db.mu
\* UpdateRating without db.mu.Lock()
CanLockNoMutex(t) == TRUE
\* a mutex its holder may lock again
CanLockReentrant(t) == mu = NoThread \/ mu = t
CanLock(t) == mu = NoThread

\* the holder of db.mu is blocked for good, so every later Lock blocks for good
LockedForever == mu # NoThread /\ pc[mu] = "hung"

Keys == Servers \X {SourceRegistry, SourceCommunity}
EmptyBag == [r \in RatingValues |-> 0]
RECURSIVE SumOver(_, _, _)
SumOver(f, w, S) ==
    IF S = {} THEN 0
    ELSE LET x == CHOOSE y \in S : TRUE
         IN f[x] * w[x] + SumOver(f, w, S \ {x})
BagCount(b) == SumOver(b, [r \in RatingValues |-> 1], RatingValues)
BagSum(b) == SumOver(b, [r \in RatingValues |-> r], RatingValues)

Counters(doc) ==
    [installation_count |-> doc.installation_count,
     rating_count |-> doc.rating_count, rating |-> doc.rating]
NoTransfer == [runs |-> 0, status |-> "none", once |-> Counters(ZeroStats), lastOp |-> 0]
\* a run that ended as call number n, leaving the collection coll
LogTransfer(log, n, status, coll, targetKey) ==
    IF log.runs >= 1 /\ n = log.lastOp + 1
    THEN [log EXCEPT !.runs = @ + 1, !.status = status, !.lastOp = n]
    ELSE [runs |-> 1, status |-> status,
          once |-> Counters(FindOne(coll, targetKey)), lastOp |-> n]

\* -------------------------------------------------------------- CacheService
\* the ttl handed to NewCacheService, in clock ticks
CacheTTL == 1
\* Get without the test of expiresAt
CacheLiveNoExpiry(c, key, now) == key \in DOMAIN c
\* cache keys are the lists of their ":"-separated segments
NoBody == [installation_count |-> -1, rating |-> <<0, 1>>, rating_count |-> -1]
NoEntry == [data |-> NoBody, expiresAt |-> 0]
CacheLive(c, key, now) == key \in DOMAIN c /\ ~(now > c[key].expiresAt)
CacheSet(c, key, value, now) ==
    [k \in DOMAIN c \cup {key} |->
        IF k = key THEN [data |-> value, expiresAt |-> now + CacheTTL] ELSE c[k]]
CacheDelete(c, key) == [k \in DOMAIN c \ {key} |-> c[k]]
RECURSIVE CacheDeleteAll(_, _)
CacheDeleteAll(c, keys) ==
    IF keys = <<>> THEN c ELSE CacheDeleteAll(CacheDelete(c, Head(keys)), Tail(keys))

\* the keys and values of the calls made on the cache directly
ServiceKeys == {<<"vp", "stats", "global">>, <<"vp", "servers", "">>}
ServiceValues == {[NoBody EXCEPT !.installation_count = 1],
                  [NoBody EXCEPT !.installation_count = 2]}
\* a key that was never set, or deleted since
NoSet == [set |-> FALSE, at |-> 0, value |-> NoBody]
NoCacheLog == [k \in ServiceKeys |-> NoSet]

\* ------------------------------------------------------- handler requests
Users == {"u1", "u2"}
NoHReq == [op |-> "none", id |-> "", source |-> "", key |-> <<>>, body |-> NoBody,
           user |-> "", rating |-> 0, existing |-> 0,
           auth |-> "", bodyOK |-> FALSE, transfer |-> FALSE, exists |-> FALSE,
           published |-> FALSE, transferCalled |-> FALSE, transferred |-> FALSE,
           n |-> 0, ext |-> "", dbOK |-> TRUE, hit |-> FALSE,
           method |-> "", path |-> <<>>, findOK |-> TRUE]
NoResp == [op |-> "none", id |-> "", source |-> "", user |-> "", status |-> 0,
           body |-> NoBody,
           fresh |-> NoBody, n |-> 0,
           auth |-> "", bodyOK |-> FALSE, exists |-> FALSE, fid |-> 0,
           ext |-> "", dbOK |-> TRUE, hit |-> FALSE,
           method |-> "", path |-> <<>>, rating |-> 0, findOK |-> TRUE]

\* a goroutine that is not in CheckAndRecordMilestones
NoMile == [i |-> 0, phase |-> "idle", total |-> 0, calls |-> 0]

\* the servers of the trending queries, and a server without install events
TrendServers == {"a", "b", "c"}
NoActivity == [recent |-> 0, previous |-> 0]

\* the analytics collections before the first write: analytics_metrics holds
\* the fields of its one document "global_metrics" (none: no document yet),
\* api_calls one document per (endpoint, method), activity_events the events
\* in insertion order, server_health one document per probed server
NoAPICall == [count |-> 0, error_count |-> 0, avg_duration |-> <<0, 1>>, last_called |-> 0]
NoDocuments == [metricsCollection |-> [f \in {} |-> <<"int", 0>>],
                apiCallsCollection |-> [k \in {} |-> NoAPICall],
                activityCollection |-> <<>>,
                healthCollection |-> [id \in {} |-> <<>>]]
\* a goroutine that is in neither RecordActivity nor TrackAPICall; err is what
\* its last call returned
NoACall == [op |-> "", phase |-> "idle", type |-> "", id |-> "", now |-> 0,
            endpoint |-> "", method |-> "", duration |-> 0, isError |-> FALSE,
            avg_duration |-> <<0, 1>>, err |-> ""]

\* the clock ticks after which 24 hours have passed: an event is
\* "$gte yesterday" while its age is below DayTicks ticks
DayTicks == CacheTTL + 1
\* activity_events of type install: per server, how many are less than 24
\* hours old and how many 24 to 48 hours old
ActivityWindow(events, now) ==
    LET of(id, lo, hi) == Cardinality({i \in DOMAIN events :
                              /\ events[i].type = "install"
                              /\ events[i].server_id = id
                              /\ now - events[i].timestamp >= lo
                              /\ now - events[i].timestamp < hi})
    IN [id \in TrendServers |-> [recent |-> of(id, 0, DayTicks),
                                 previous |-> of(id, DayTicks, 2 * DayTicks)]]
activity == ActivityWindow(adb.activityCollection, clock)

\* ---------------------------------------------------------------------- Init
Init ==
    /\ stats = [k \in {} |-> ZeroStats]
    /\ mu = NoThread
    /\ clock = 1
    /\ pc = [t \in Threads |-> "idle"]
    /\ req = [t \in Threads |-> NoReq]
    /\ ops = 0
    /\ okInstalls = [k \in Keys |-> 0]
    /\ okRatings = [k \in Keys |-> EmptyBag]
    /\ xferLog = NoTransfer
    /\ cache = [k \in {} |-> NoEntry]
    /\ feedback = <<>>
    /\ catalog = [id \in Servers |-> [owner |-> SourceCommunity]]
    /\ hpc = [t \in Threads |-> "idle"]
    /\ hreq = [t \in Threads |-> NoHReq]
    /\ resp = NoResp
    /\ nreq = 0
    /\ milestones = <<>>
    /\ mile = [t \in Threads |-> NoMile]
    /\ adb = NoDocuments
    /\ acall = [t \in Threads |-> NoACall]
    /\ cacheLog = NoCacheLog

Tick ==
    /\ clock < MaxClock
    /\ clock' = clock + 1
    /\ UNCHANGED <<stats, mu, pc, req, ops, okInstalls, okRatings, xferLog>>
    /\ UNCHANGED httpVars

\* ------------------------------------------------- IncrementInstallCount
\* "$set": {"installation_count": 1} in place of "$inc"
IncrementInstallDocSetOne(coll, key, validatedSource, now) ==
    [FindOne(coll, key) EXCEPT !.installation_count = 1,
                               !.last_updated = now,
                               !.source = validatedSource,
                               !.first_seen = IF Found(coll, key) THEN @ ELSE now]
IncrementInstallDoc(coll, key, validatedSource, now) ==
    IF Found(coll, key)
    THEN [coll[key] EXCEPT !.installation_count = @ + 1,
                           !.last_updated = now,
                           !.source = validatedSource]
    ELSE [ZeroStats EXCEPT !.installation_count = 1,
                           !.last_updated = now,
                           !.source = validatedSource,
                           !.first_seen = now]

IncrementInstallCount(t, id, source, dbOK) ==
    LET src == DefaultSource(source)
        v == ValidateSource(src)
        key == <<id, v.value>>
    IN /\ pc[t] = "idle"
       /\ ops < MaxOps
       /\ CanLock(t) \/ LockedForever
       /\ ops' = ops + 1
       /\ IF ~CanLock(t)
          THEN /\ pc' = [pc EXCEPT ![t] = "hung"]
               /\ req' = [req EXCEPT ![t] = [NoReq EXCEPT !.op = "IncrementInstallCount"]]
               /\ UNCHANGED <<stats, okInstalls>>
          ELSE /\ IF v.ok /\ dbOK
                  THEN /\ stats' = Put(stats, key,
                                      IncrementInstallDoc(stats, key, v.value, clock))
                       /\ okInstalls' = [okInstalls EXCEPT ![key] = @ + 1]
                  ELSE UNCHANGED <<stats, okInstalls>>
               /\ UNCHANGED <<pc, req>>
       /\ UNCHANGED <<mu, clock, okRatings, xferLog>>

\* ------------------------------------------------------------ UpdateRating
\* the mean of the stored mean and the new rating, ignoring the count
NewAvgRatingUnweighted(cur, newRating) ==
    IF cur.rating_count = 0 THEN RatOfInt(newRating)
    ELSE RatDivInt(RatPlus(cur.rating, RatOfInt(newRating)), 2)
NewAvgRating(cur, newRating) ==
    LET totalRating == RatTimesInt(cur.rating, cur.rating_count)
        newRatingCount == cur.rating_count + 1
    IN RatDivInt(RatPlus(totalRating, RatOfInt(newRating)), newRatingCount)

\* the "$set" without "rating_count"
UpdateRatingDocNoCount(coll, key, cur, newRating, source, now) ==
    [FindOne(coll, key) EXCEPT !.rating = NewAvgRating(cur, newRating),
                               !.last_updated = now,
                               !.source = source,
                               !.first_seen = IF Found(coll, key) THEN @ ELSE now]
UpdateRatingDoc(coll, key, cur, newRating, source, now) ==
    IF Found(coll, key)
    THEN [coll[key] EXCEPT !.rating = NewAvgRating(cur, newRating),
                           !.rating_count = cur.rating_count + 1,
                           !.last_updated = now,
                           !.source = source]
    ELSE [ZeroStats EXCEPT !.rating = NewAvgRating(cur, newRating),
                           !.rating_count = cur.rating_count + 1,
                           !.last_updated = now,
                           !.source = source,
                           !.first_seen = now]

\* Lock, validation and the FindOne of the current document
UpdateRatingFind(t, id, source, newRating, dbOK) ==
    LET src == DefaultSource(source)
        v == ValidateSource(src)
        key == <<id, v.value>>
    IN /\ pc[t] = "idle"
       /\ ops < MaxOps
       /\ CanLock(t) \/ LockedForever
       /\ ops' = ops + 1
       /\ IF ~CanLock(t)
          THEN /\ pc' = [pc EXCEPT ![t] = "hung"]
               /\ req' = [req EXCEPT ![t] = [NoReq EXCEPT !.op = "UpdateRating"]]
               /\ mu' = mu
          ELSE IF v.ok /\ dbOK
          THEN /\ mu' = t
               /\ pc' = [pc EXCEPT ![t] = "ur_update"]
               /\ req' = [req EXCEPT ![t] =
                           [NoReq EXCEPT !.op = "UpdateRating", !.key = key,
                                         !.source = src, !.rating = newRating,
                                         !.cur = FindOne(stats, key)]]
          ELSE UNCHANGED <<mu, pc, req>>
       /\ UNCHANGED <<stats, clock, okInstalls, okRatings, xferLog>>

\* the upserting UpdateOne and the deferred Unlock
UpdateRatingUpdate(t, dbOK) ==
    LET r == req[t]
    IN /\ pc[t] = "ur_update"
       /\ IF dbOK
          THEN /\ stats' = Put(stats, r.key,
                              UpdateRatingDoc(stats, r.key, r.cur, r.rating, r.source, clock))
               /\ okRatings' = [okRatings EXCEPT ![r.key][r.rating] = @ + 1]
          ELSE UNCHANGED <<stats, okRatings>>
       /\ mu' = NoThread
       /\ pc' = [pc EXCEPT ![t] = "idle"]
       /\ req' = [req EXCEPT ![t] = NoReq]
       /\ UNCHANGED <<clock, ops, okInstalls, xferLog>>

\* ------------------------------------------------------------ TransferStats
MergedStats(targetStats, targetExists, sourceStats, toSource, fromSource) ==
    IF targetExists
    THEN LET cnt == targetStats.rating_count + sourceStats.rating_count
         IN [ZeroStats EXCEPT
               !.source = toSource,
               !.installation_count =
                   targetStats.installation_count + sourceStats.installation_count,
               !.rating_count = cnt,
               !.rating = IF cnt > 0
                          THEN RatDivInt(
                                 RatPlus(RatTimesInt(targetStats.rating, targetStats.rating_count),
                                         RatTimesInt(sourceStats.rating, sourceStats.rating_count)),
                                 cnt)
                          ELSE <<0, 1>>,
               !.active_installs = targetStats.active_installs,
               !.claimed_from = fromSource]
    ELSE [sourceStats EXCEPT !.source = toSource,
                             !.claimed_from = fromSource,
                             !.claimed_to = ""]

\* UpdateOne(filter, {$set: stats}, upsert): omitempty fields are only set
\* when they are not zero
UpsertStatsDoc(coll, key, s, now) ==
    LET base == FindOne(coll, key)
    IN [base EXCEPT !.source = s.source,
                    !.installation_count = s.installation_count,
                    !.rating = s.rating,
                    !.rating_count = s.rating_count,
                    !.first_seen = s.first_seen,
                    !.last_updated = now,
                    !.active_installs = IF s.active_installs # 0 THEN s.active_installs ELSE @,
                    !.claimed_from = IF s.claimed_from # "" THEN s.claimed_from ELSE @]

\* Lock, FindOne of the source and of the target, the merge
TransferStatsFind(t, fromServerID, toServerID, fromSource, toSource, dbOK) ==
    LET fs == IF fromSource = "" THEN SourceCommunity ELSE fromSource
        ts == IF toSource = "" THEN SourceRegistry ELSE toSource
        sourceKey == <<fromServerID, fs>>
        targetKey == <<toServerID, ts>>
    IN /\ pc[t] = "idle"
       /\ ops < MaxOps
       /\ CanLock(t) \/ LockedForever
       /\ ops' = ops + 1
       /\ IF ~CanLock(t)
          THEN /\ pc' = [pc EXCEPT ![t] = "hung"]
               /\ req' = [req EXCEPT ![t] =
                           [NoReq EXCEPT !.op = "TransferStats", !.key = targetKey,
                                         !.source = fs]]
               /\ mu' = mu
               /\ xferLog' = LogTransfer(xferLog, ops + 1, "hung", stats, targetKey)
          ELSE IF dbOK /\ Found(stats, sourceKey)
          THEN /\ mu' = t
               /\ pc' = [pc EXCEPT ![t] = "ts_upsert"]
               /\ req' = [req EXCEPT ![t] =
                           [NoReq EXCEPT !.op = "TransferStats", !.key = targetKey,
                                         !.source = fs,
                                         !.cur = stats[sourceKey],
                                         !.tgt = FindOne(stats, targetKey),
                                         !.tgtExists = Found(stats, targetKey)]]
               /\ xferLog' = xferLog
          ELSE \* "No stats to transfer", or the read failed
               /\ xferLog' = LogTransfer(xferLog, ops + 1, "returned", stats, targetKey)
               /\ UNCHANGED <<mu, pc, req>>
       /\ UNCHANGED <<stats, clock, okInstalls, okRatings>>

\* the call of UpsertStats, which locks db.mu itself, then the claim stamp
\* on the source document
TransferStatsUpsert(t, dbOK) ==
    LET r == req[t]
        sourceKey == <<r.key[1], r.source>>
        newStats == MergedStats(r.tgt, r.tgtExists, r.cur, r.key[2], r.source)
        upserted == Put(stats, r.key, UpsertStatsDoc(stats, r.key, newStats, clock))
    IN /\ pc[t] = "ts_upsert"
       /\ CanLock(t) \/ mu = t
       /\ IF CanLock(t)
          THEN /\ stats' = IF dbOK
                           THEN [upserted EXCEPT ![sourceKey].claimed_to = r.key[1]]
                           ELSE stats
               /\ mu' = NoThread
               /\ pc' = [pc EXCEPT ![t] = "idle"]
               /\ req' = [req EXCEPT ![t] = NoReq]
               /\ xferLog' = LogTransfer(xferLog, ops, "returned", stats', r.key)
          ELSE \* sync.RWMutex is not reentrant: the goroutine blocks forever
               /\ pc' = [pc EXCEPT ![t] = "hung"]
               /\ xferLog' = LogTransfer(xferLog, ops, "hung", stats, r.key)
               /\ UNCHANGED <<stats, mu, req>>
       /\ UNCHANGED <<clock, ops, okInstalls, okRatings>>

\* -------------------------------------------------------- SyncAnalyticsData
\* a BSON int32 in the server_id field: no string server id equals it
IntID(n) == "#" \o ToString(n)

\* StatsUpdateRequest; active_installs stands for the three analytics fields,
\* which are written together wherever they are written
StatsUpdateRequest(delta, active) == [InstallationDelta |-> delta, ActiveInstalls |-> active]
SyncInputs == {<<StatsUpdateRequest(0, 7)>>,
               <<StatsUpdateRequest(1, 7), StatsUpdateRequest(1, 0)>>}

\* one UpdateOne model of the bulk write: the filter is
\* {"server_id": update.InstallationDelta}, the update a "$set" of the
\* analytics fields and last_updated, with upsert
SyncAnalyticsDoc(coll, update, now) ==
    LET key == <<IntID(update.InstallationDelta), "">>
    IN Put(coll, key, [FindOne(coll, key) EXCEPT !.active_installs = update.ActiveInstalls,
                                                 !.last_updated = now])

\* the ordered BulkWrite, of which the first `applied` models were written
RECURSIVE BulkWrite(_, _, _, _)
BulkWrite(coll, updates, applied, now) ==
    IF applied = 0 THEN coll
    ELSE SyncAnalyticsDoc(BulkWrite(coll, updates, applied - 1, now), updates[applied], now)

\* SyncAnalyticsData up to the Lock it obtains
SyncAnalyticsData(t) ==
    /\ pc[t] = "idle"
    /\ ops < MaxOps
    /\ CanLock(t) \/ LockedForever
    /\ ops' = ops + 1
    /\ req' = [req EXCEPT ![t] = [NoReq EXCEPT !.op = "SyncAnalyticsData"]]
    /\ IF ~CanLock(t)
       THEN /\ pc' = [pc EXCEPT ![t] = "hung"]
            /\ mu' = mu
       ELSE /\ pc' = [pc EXCEPT ![t] = "sync_write"]
            /\ mu' = t
    /\ UNCHANGED <<stats, clock, okInstalls, okRatings, xferLog>>

\* the BulkWrite of its updates and the deferred Unlock
SyncAnalyticsBulkWrite(t, updates, applied) ==
    /\ pc[t] = "sync_write"
    /\ stats' = BulkWrite(stats, updates, applied, clock)
    /\ mu' = NoThread
    /\ pc' = [pc EXCEPT ![t] = "idle"]
    /\ req' = [req EXCEPT ![t] = NoReq]
    /\ UNCHANGED <<clock, ops, okInstalls, okRatings, xferLog>>

\* ------------------------------------------------------------ store reads
\* GetStats: the document of (serverID, source), or an empty record
GetStats(coll, serverID, source) ==
    LET v == ValidateSource(DefaultSource(source))
    IN [ok |-> v.ok,
        body |-> IF v.ok THEN Counters(FindOne(coll, <<serverID, v.value>>)) ELSE NoBody]

RECURSIVE TotalRating(_, _)
TotalRating(coll, S) ==
    IF S = {} THEN <<0, 1>>
    ELSE LET k == CHOOSE x \in S : TRUE
         IN RatPlus(RatTimesInt(coll[k].rating, coll[k].rating_count),
                    TotalRating(coll, S \ {k}))

\* the sums and the weighted mean that GetAggregatedStats and GetGlobalStats form
Aggregate(coll, S) ==
    LET one == [k \in S |-> 1]
        installs == SumOver([k \in S |-> coll[k].installation_count], one, S)
        ratings == SumOver([k \in S |-> coll[k].rating_count], one, S)
    IN [installation_count |-> installs,
        rating |-> IF ratings > 0 THEN RatDivInt(TotalRating(coll, S), ratings)
                   ELSE <<0, 1>>,
        rating_count |-> ratings]

GetAggregatedStats(coll, serverID) ==
    Aggregate(coll, {k \in DOMAIN coll : k[1] = serverID})

GetGlobalStats(coll, source) ==
    IF source # "" /\ source # "ALL"
    THEN Aggregate(coll, {k \in DOMAIN coll : k[2] = ValidateSource(source).value})
    ELSE Aggregate(coll, DOMAIN coll)

\* ------------------------------------------------------------- HTTP helpers
\* router.go validateSource: "", REGISTRY or COMMUNITY, spelled exactly
validateSource(source) == source \in {"", SourceRegistry, SourceCommunity}

\* a handler of goroutine t accepts request number nreq + 1
Accept(t) ==
    /\ hpc[t] = "idle"
    /\ pc[t] = "idle"
    /\ nreq < MaxOps
    /\ nreq' = nreq + 1

\* the handler of goroutine t writes its response and returns
Respond(t, r, status, body, fresh) ==
    /\ resp' = [op |-> r.op, id |-> r.id, source |-> r.source, user |-> r.user,
                status |-> status,
                body |-> body, fresh |-> fresh, n |-> r.n,
                auth |-> r.auth, bodyOK |-> r.bodyOK, exists |-> r.exists,
                fid |-> r.existing,
                ext |-> r.ext, dbOK |-> r.dbOK, hit |-> r.hit,
                method |-> r.method, path |-> r.path, rating |-> r.rating,
                findOK |-> r.findOK]
    /\ hpc' = [hpc EXCEPT ![t] = "idle"]
    /\ hreq' = [hreq EXCEPT ![t] = NoHReq]

\* a read of the stats store needs db.mu.RLock()
CanRLock == mu = NoThread

\* what the store holds for the view a cache key names
StoreView(coll, op, id, source) ==
    CASE op = "GetStats" -> GetStats(coll, id, source).body
      [] op = "GetAggregatedStats" -> GetAggregatedStats(coll, id)
      [] op = "GetGlobalStats" -> GetGlobalStats(coll, source)
      [] op = "GetServers" -> [i \in Servers |-> GetStats(coll, i, source).body]
      [] OTHER -> NoBody

\* ---------------------------------------------------------- GetStatsHandler
StatsCacheKey(serverID, source, aggregated) ==
    IF aggregated THEN <<"vp", "stats", serverID, "aggregated">>
    ELSE IF source # "" THEN <<"vp", "stats", serverID, source>>
    ELSE <<"vp", "stats", serverID>>

\* validation, the cache key and statsCache.Get
GetStatsHandler(t, serverID, source, aggregated) ==
    LET cacheKey == StatsCacheKey(serverID, source, aggregated)
        op == IF aggregated THEN "GetAggregatedStats" ELSE "GetStats"
        r == [NoHReq EXCEPT !.op = op, !.id = serverID, !.source = source,
                            !.key = cacheKey, !.n = nreq + 1]
    IN /\ Accept(t)
       /\ IF ~validateSource(source)
          THEN Respond(t, r, 400, NoBody, NoBody)
          ELSE IF CacheLive(cache, cacheKey, clock)
          THEN Respond(t, r, 200, cache[cacheKey].data,
                       StoreView(stats, op, serverID, source))
          ELSE /\ hpc' = [hpc EXCEPT ![t] = "read"]
               /\ hreq' = [hreq EXCEPT ![t] = r]
               /\ resp' = resp
       /\ UNCHANGED <<cache, feedback, catalog>>
       /\ UNCHANGED storeVars

\* ----------------------------------------------------- GetGlobalStatsHandler
GlobalCacheKey(source) ==
    IF source # "" THEN <<"vp", "stats", "global", source>>
    ELSE <<"vp", "stats", "global">>

GetGlobalStatsHandler(t, source) ==
    LET cacheKey == GlobalCacheKey(source)
        op == "GetGlobalStats"
        r == [NoHReq EXCEPT !.op = op, !.source = source, !.key = cacheKey,
                            !.n = nreq + 1]
    IN /\ Accept(t)
       /\ IF ~(validateSource(source) \/ source = "ALL")
          THEN Respond(t, r, 400, NoBody, NoBody)
          ELSE IF CacheLive(cache, cacheKey, clock)
          THEN Respond(t, r, 200, cache[cacheKey].data,
                       StoreView(stats, op, "", source))
          ELSE /\ hpc' = [hpc EXCEPT ![t] = "read"]
               /\ hreq' = [hreq EXCEPT ![t] = r]
               /\ resp' = resp
       /\ UNCHANGED <<cache, feedback, catalog>>
       /\ UNCHANGED storeVars

\* --------------------------------------------------------- GetServersHandler
\* the encoded query strings the model asks for
Queries == {"", "sort=installs"}

\* cacheKey := "vp:servers:" + r.URL.Query().Encode(); neither query names a source
GetServersHandler(t, query) ==
    LET cacheKey == <<"vp", "servers", query>>
        op == "GetServers"
        r == [NoHReq EXCEPT !.op = op, !.key = cacheKey, !.n = nreq + 1]
    IN /\ Accept(t)
       /\ IF CacheLive(cache, cacheKey, clock)
          THEN Respond(t, r, 200, cache[cacheKey].data,
                       StoreView(stats, op, "", ""))
          ELSE /\ hpc' = [hpc EXCEPT ![t] = "read"]
               /\ hreq' = [hreq EXCEPT ![t] = r]
               /\ resp' = resp
       /\ UNCHANGED <<cache, feedback, catalog>>
       /\ UNCHANGED storeVars

\* the store read of a handler that missed the cache
HandlerRead(t, dbOK) ==
    LET r == hreq[t]
    IN /\ hpc[t] = "read"
       /\ CanRLock \/ LockedForever
       /\ IF ~CanRLock
          THEN /\ hpc' = [hpc EXCEPT ![t] = "hung"]
               /\ UNCHANGED <<hreq, resp>>
          ELSE IF ~dbOK
          THEN Respond(t, r, 500, NoBody, NoBody)
          ELSE /\ hreq' = [hreq EXCEPT ![t].body = StoreView(stats, r.op, r.id, r.source)]
               /\ hpc' = [hpc EXCEPT ![t] = "set"]
               /\ resp' = resp
       /\ UNCHANGED <<cache, feedback, catalog, nreq>>
       /\ UNCHANGED storeVars

\* statsCache.Set and the response
HandlerSet(t) ==
    LET r == hreq[t]
    IN /\ hpc[t] = "set"
       /\ cache' = CacheSet(cache, r.key, r.body, clock)
       /\ Respond(t, r, 200, r.body, StoreView(stats, r.op, r.id, r.source))
       /\ UNCHANGED <<feedback, catalog, nreq>>
       /\ UNCHANGED storeVars

\* CacheService.cleanup: the ticker drops the expired entries
Cleanup ==
    /\ cache' = [k \in {x \in DOMAIN cache : ~(clock > cache[x].expiresAt)} |-> cache[k]]
    /\ UNCHANGED <<feedback, catalog, hpc, hreq, resp, nreq>>
    /\ UNCHANGED storeVars

\* ------------------------------------------------- CacheService, called
\* Get: the entry's data and true, unless there is no entry or it expired
CacheServiceGet(t, key) ==
    LET r == [NoHReq EXCEPT !.op = "CacheService.Get", !.key = key, !.n = nreq + 1]
        found == CacheLive(cache, key, clock)
    IN /\ Accept(t)
       /\ Respond(t, [r EXCEPT !.hit = found], 0,
                  [key |-> key, data |-> IF found THEN cache[key].data ELSE NoBody], NoBody)
       /\ UNCHANGED <<cache, feedback, catalog>>
       /\ UNCHANGED storeVars
       /\ UNCHANGED analyticsVars

CacheServiceSet(key, value) ==
    /\ nreq < MaxOps
    /\ nreq' = nreq + 1
    /\ cache' = CacheSet(cache, key, value, clock)
    /\ cacheLog' = [cacheLog EXCEPT ![key] = [set |-> TRUE, at |-> clock, value |-> value]]
    /\ UNCHANGED <<milestones, mile, adb, acall>>
    /\ UNCHANGED <<feedback, catalog, hpc, hreq, resp>>
    /\ UNCHANGED storeVars

CacheServiceDelete(key) ==
    /\ nreq < MaxOps
    /\ nreq' = nreq + 1
    /\ cache' = CacheDelete(cache, key)
    /\ cacheLog' = [cacheLog EXCEPT ![key] = NoSet]
    /\ UNCHANGED <<milestones, mile, adb, acall>>
    /\ UNCHANGED <<feedback, catalog, hpc, hreq, resp>>
    /\ UNCHANGED storeVars

\* ------------------------------------------------------ cache invalidation
\* router.go invalidateServerCaches
invalidateServerCaches(c, serverID) ==
    CacheDeleteAll(c, << <<"vp", "server", serverID>>,
                         <<"vp", "stats", serverID>>,
                         <<"vp", "stats", serverID, "aggregated">>,
                         <<"vp", "servers", "">>,
                         <<"vp", "stats", "global">> >>)

\* router.go invalidateSourceCaches
invalidateSourceCaches(c, serverID, source) ==
    CacheDeleteAll(c, << <<"vp", "stats", serverID, source>>,
                         <<"vp", "stats", "global", source>>,
                         <<"vp", "feedback", serverID, source>> >>)

\* feedback.go invalidateFeedbackCache; "vp:feedback:<id>:*" is a literal key
invalidateFeedbackCache(c, serverID, source) ==
    LET c1 == CacheDeleteAll(c, << <<"vp", "feedback", serverID, "*">>,
                                   <<"vp", "server", serverID>>,
                                   <<"vp", "stats", serverID>> >>)
        c2 == IF source # "" THEN CacheDelete(c1, <<"vp", "stats", serverID, source>>)
              ELSE c1
    IN CacheDelete(c2, <<"vp", "servers", "">>)

\* ------------------------------------------------------ TrackInstallHandler
\* validation and statsDB.IncrementInstallCount
TrackInstallHandler(t, serverID, source, dbOK) ==
    LET src == DefaultSource(source)
        op == "TrackInstall"
        r == [NoHReq EXCEPT !.op = op, !.id = serverID, !.source = src, !.n = nreq + 1]
    IN /\ Accept(t)
       /\ IF ~validateSource(source)
          THEN /\ Respond(t, r, 400, NoBody, NoBody)
               /\ UNCHANGED storeVars
          ELSE /\ IncrementInstallCount(t, serverID, src, dbOK)
               /\ IF pc'[t] = "hung"
                  THEN /\ hpc' = [hpc EXCEPT ![t] = "hung"]
                       /\ hreq' = [hreq EXCEPT ![t] = r]
                       /\ resp' = resp
                  ELSE IF okInstalls' = okInstalls
                  THEN Respond(t, r, 500, NoBody, NoBody)
                  ELSE /\ hpc' = [hpc EXCEPT ![t] = "ti_invalidate"]
                       /\ hreq' = [hreq EXCEPT ![t] = r]
                       /\ resp' = resp
       /\ UNCHANGED <<cache, feedback, catalog>>

\* invalidateServerCaches, invalidateSourceCaches and the response
TrackInstallInvalidate(t) ==
    LET r == hreq[t]
    IN /\ hpc[t] = "ti_invalidate"
       /\ cache' = invalidateSourceCaches(invalidateServerCaches(cache, r.id), r.id, r.source)
       /\ Respond(t, r, 200, NoBody, NoBody)
       /\ UNCHANGED <<feedback, catalog, nreq>>
       /\ UNCHANGED storeVars

\* ------------------------------------------------------------ feedback store
\* the unique index on (server_id, user_id, source) never refusing an insert
IsDuplicateKeyNever(a, b) == FALSE
\* the unique index on (server_id, user_id, source)
IsDuplicateKey(a, b) ==
    a.server_id = b.server_id /\ a.user_id = b.user_id /\ a.source = b.source

FeedbackIndexes(fb, doc) == {i \in 1..Len(fb) : IsDuplicateKey(fb[i], doc)}

\* GetUserFeedback: the _id of the user's feedback, 0 for ErrFeedbackNotFound
GetUserFeedback(fb, serverID, userID, source) ==
    LET v == ValidateSource(DefaultSource(source))
        hits == {i \in 1..Len(fb) : /\ fb[i].server_id = serverID
                                    /\ fb[i].user_id = userID
                                    /\ fb[i].source = v.value}
    IN IF hits = {} THEN 0 ELSE fb[CHOOSE i \in hits : \A j \in hits : i <= j].id

\* CreateFeedback: InsertOne, refused by the unique index
CreateFeedback(fb, doc) ==
    LET v == ValidateSource(DefaultSource(doc.source))
        d == [doc EXCEPT !.source = v.value]
    IN IF ~v.ok THEN [err |-> "invalid", fb |-> fb]
       ELSE IF FeedbackIndexes(fb, d) # {} THEN [err |-> "ErrDuplicateFeedback", fb |-> fb]
       ELSE [err |-> "", fb |-> Append(fb, d)]

\* UpdateFeedback: UpdateOne filtered by _id and user_id
UpdateFeedback(fb, doc) ==
    LET hits == {i \in 1..Len(fb) : fb[i].id = doc.id /\ fb[i].user_id = doc.user_id}
    IN IF hits = {} THEN [err |-> "ErrFeedbackNotFound", fb |-> fb]
       ELSE [err |-> "",
             fb |-> [i \in 1..Len(fb) |->
                        IF i \in hits THEN [fb[i] EXCEPT !.rating = doc.rating] ELSE fb[i]]]

\* ---------------------------------------------------- SubmitFeedbackHandler
\* ratings a request body may carry; 6 is out of range
RatingInputs == {3, 5, 6}

\* the validations and feedbackDB.GetUserFeedback
SubmitFeedbackHandler(t, serverID, userID, source, rating, dbOK) ==
    LET src == DefaultSource(source)
        op == "SubmitFeedback"
        r == [NoHReq EXCEPT !.op = op, !.id = serverID, !.source = src,
                            !.user = userID, !.rating = rating, !.n = nreq + 1,
                            !.existing = GetUserFeedback(feedback, serverID, userID, src)]
    IN /\ Accept(t)
       /\ IF rating < 1 \/ rating > 5 \/ ~validateSource(source) \/ userID = ""
          THEN Respond(t, r, 400, NoBody, NoBody)
          ELSE IF ~dbOK
          THEN Respond(t, r, 500, NoBody, NoBody)
          ELSE /\ hpc' = [hpc EXCEPT ![t] = "sf_write"]
               /\ hreq' = [hreq EXCEPT ![t] = r]
               /\ resp' = resp
       /\ UNCHANGED <<cache, feedback, catalog>>
       /\ UNCHANGED storeVars

\* feedbackDB.UpdateFeedback or feedbackDB.CreateFeedback
SubmitFeedbackWrite(t, dbOK) ==
    LET r == hreq[t]
        doc == [id |-> IF r.existing # 0 THEN r.existing ELSE r.n,
                server_id |-> r.id, user_id |-> r.user, source |-> r.source,
                rating |-> r.rating]
        res == IF r.existing # 0 THEN UpdateFeedback(feedback, doc)
               ELSE CreateFeedback(feedback, doc)
    IN /\ hpc[t] = "sf_write"
       /\ IF ~dbOK \/ (res.err # "" /\ res.err # "ErrDuplicateFeedback")
          THEN /\ Respond(t, r, 500, NoBody, NoBody)
               /\ feedback' = feedback
          ELSE IF res.err = "ErrDuplicateFeedback"
          THEN /\ Respond(t, r, 409, NoBody, NoBody)
               /\ feedback' = feedback
          ELSE /\ feedback' = res.fb
               /\ hpc' = [hpc EXCEPT ![t] = "sf_rating"]
               /\ UNCHANGED <<hreq, resp>>
       /\ UNCHANGED <<cache, catalog, nreq>>
       /\ UNCHANGED storeVars

\* statsDB.UpdateRating up to its FindOne; an error is only logged
SubmitFeedbackRating(t, dbOK) ==
    LET r == hreq[t]
    IN /\ hpc[t] = "sf_rating"
       /\ UpdateRatingFind(t, r.id, r.source, r.rating, dbOK)
       /\ hpc' = [hpc EXCEPT ![t] = IF pc'[t] = "hung" THEN "hung"
                                     ELSE IF pc'[t] = "ur_update" THEN "sf_rating_update"
                                     ELSE "sf_invalidate"]
       /\ UNCHANGED <<cache, feedback, catalog, hreq, resp, nreq>>

\* statsDB.UpdateRating from its UpdateOne on
SubmitFeedbackRatingUpdate(t, dbOK) ==
    /\ hpc[t] = "sf_rating_update"
    /\ UpdateRatingUpdate(t, dbOK)
    /\ hpc' = [hpc EXCEPT ![t] = "sf_invalidate"]
    /\ UNCHANGED <<cache, feedback, catalog, hreq, resp, nreq>>

\* h.invalidateFeedbackCache(serverID, ratingReq.Source)
SubmitFeedbackInvalidate(t) ==
    LET r == hreq[t]
    IN /\ hpc[t] = "sf_invalidate"
       /\ cache' = invalidateFeedbackCache(cache, r.id, r.source)
       /\ hpc' = [hpc EXCEPT ![t] = "sf_respond"]
       /\ UNCHANGED <<feedback, catalog, hreq, resp, nreq>>
       /\ UNCHANGED storeVars

\* statsDB.GetStats and the 200 response, with or without the stats
SubmitFeedbackRespond(t, dbOK) ==
    LET r == hreq[t]
        updatedStats == IF dbOK THEN GetStats(stats, r.id, r.source).body ELSE NoBody
    IN /\ hpc[t] = "sf_respond"
       /\ CanRLock \/ LockedForever
       /\ IF ~CanRLock
          THEN /\ hpc' = [hpc EXCEPT ![t] = "hung"]
               /\ UNCHANGED <<hreq, resp>>
          ELSE Respond(t, r, 200, updatedStats, updatedStats)
       /\ UNCHANGED <<cache, feedback, catalog, nreq>>
       /\ UNCHANGED storeVars

\* ---------------------------------------------- feedback update and delete
\* GetFeedback: the index of the document with this _id, 0 for
\* ErrFeedbackNotFound
GetFeedback(fb, feedbackID) ==
    LET hits == {i \in 1..Len(fb) : fb[i].id = feedbackID}
    IN IF hits = {} THEN 0 ELSE CHOOSE i \in hits : \A j \in hits : i <= j

\* DeleteFeedback: DeleteOne filtered by _id and user_id
DeleteFeedback(fb, feedbackID, userID) ==
    LET keep == SelectSeq(fb, LAMBDA d : ~(d.id = feedbackID /\ d.user_id = userID))
    IN IF Len(keep) = Len(fb) THEN [err |-> "ErrFeedbackNotFound", fb |-> fb]
       ELSE [err |-> "", fb |-> keep]

\* the status UpdateFeedbackHandler answers with when the user is not the
\* author of the feedback
OwnershipStatus == 403

\* feedback ids a request may name: those the store has given out, and others
FeedbackIds == 1..MaxOps

\* len(parts) of the path after /vp/servers/: 3 for {id}/feedback/{feedback_id}
\* and {id}/rating/{user_id}, 4 when a further slash follows
PartCounts == {3, 4}

\* the validations, feedbackDB.GetFeedback and the ownership check
UpdateFeedbackHandler(t, nparts, serverID, feedbackID, userID, rating, dbOK) ==
    LET i == GetFeedback(feedback, feedbackID)
        r == [NoHReq EXCEPT !.op = "UpdateFeedback", !.id = serverID,
                            !.user = userID, !.rating = rating,
                            !.existing = feedbackID, !.n = nreq + 1,
                            !.source = IF i = 0 THEN "" ELSE feedback[i].source]
    IN /\ Accept(t)
       /\ IF nparts < 4 \/ rating < 1 \/ rating > 5 \/ userID = ""
          THEN Respond(t, r, 400, NoBody, NoBody)
          ELSE IF ~dbOK
          THEN Respond(t, r, 500, NoBody, NoBody)
          ELSE IF i = 0
          THEN Respond(t, r, 404, NoBody, NoBody)
          ELSE IF feedback[i].user_id # userID
          THEN Respond(t, r, OwnershipStatus, NoBody, NoBody)
          ELSE /\ hpc' = [hpc EXCEPT ![t] = "uf_write"]
               /\ hreq' = [hreq EXCEPT ![t] = r]
               /\ resp' = resp
       /\ UNCHANGED <<cache, feedback, catalog>>
       /\ UNCHANGED storeVars

\* feedbackDB.UpdateFeedback(existingFeedback)
UpdateFeedbackWrite(t, dbOK) ==
    LET r == hreq[t]
        doc == [id |-> r.existing, server_id |-> r.id, user_id |-> r.user,
                source |-> r.source, rating |-> r.rating]
        res == UpdateFeedback(feedback, doc)
    IN /\ hpc[t] = "uf_write"
       /\ IF ~dbOK \/ res.err # ""
          THEN /\ Respond(t, r, 500, NoBody, NoBody)
               /\ feedback' = feedback
          ELSE /\ feedback' = res.fb
               /\ hpc' = [hpc EXCEPT ![t] = "uf_rating"]
               /\ UNCHANGED <<hreq, resp>>
       /\ UNCHANGED <<cache, catalog, nreq>>
       /\ UNCHANGED storeVars

\* statsDB.UpdateRating up to its FindOne; an error is only logged
UpdateFeedbackRating(t, dbOK) ==
    LET r == hreq[t]
    IN /\ hpc[t] = "uf_rating"
       /\ UpdateRatingFind(t, r.id, r.source, r.rating, dbOK)
       /\ hpc' = [hpc EXCEPT ![t] = IF pc'[t] = "hung" THEN "hung"
                                     ELSE IF pc'[t] = "ur_update" THEN "uf_rating_update"
                                     ELSE "uf_respond"]
       /\ UNCHANGED <<cache, feedback, catalog, hreq, resp, nreq>>

\* statsDB.UpdateRating from its UpdateOne on
UpdateFeedbackRatingUpdate(t, dbOK) ==
    /\ hpc[t] = "uf_rating_update"
    /\ UpdateRatingUpdate(t, dbOK)
    /\ hpc' = [hpc EXCEPT ![t] = "uf_respond"]
    /\ UNCHANGED <<cache, feedback, catalog, hreq, resp, nreq>>

\* h.invalidateFeedbackCache(serverID, existingFeedback.Source) and the 200
UpdateFeedbackRespond(t) ==
    LET r == hreq[t]
    IN /\ hpc[t] = "uf_respond"
       /\ cache' = invalidateFeedbackCache(cache, r.id, r.source)
       /\ Respond(t, r, 200, NoBody, NoBody)
       /\ UNCHANGED <<feedback, catalog, nreq>>
       /\ UNCHANGED storeVars

\* DeleteFeedbackHandler: feedbackDB.DeleteFeedback, invalidateFeedbackCache
\* with an empty source, the response
DeleteFeedbackHandler(t, nparts, serverID, feedbackID, userID, dbOK) ==
    LET r == [NoHReq EXCEPT !.op = "DeleteFeedback", !.id = serverID,
                            !.user = userID, !.existing = feedbackID,
                            !.n = nreq + 1]
        res == DeleteFeedback(feedback, feedbackID, userID)
    IN /\ Accept(t)
       /\ IF nparts < 4 \/ userID = ""
          THEN /\ Respond(t, r, 400, NoBody, NoBody)
               /\ UNCHANGED <<feedback, cache>>
          ELSE IF ~dbOK
          THEN /\ Respond(t, r, 500, NoBody, NoBody)
               /\ UNCHANGED <<feedback, cache>>
          ELSE IF res.err = "ErrFeedbackNotFound"
          THEN /\ Respond(t, r, 404, NoBody, NoBody)
               /\ UNCHANGED <<feedback, cache>>
          ELSE /\ feedback' = res.fb
               /\ cache' = invalidateFeedbackCache(cache, serverID, "")
               /\ Respond(t, r, 200, NoBody, NoBody)
       /\ UNCHANGED catalog
       /\ UNCHANGED storeVars

\* --------------------------------------------------- GetUserFeedbackHandler
\* UserFeedbackResponse{HasRated, Feedback}: i is the index of the feedback,
\* 0 when the user has none
UserFeedbackResponse(fb, i) ==
    IF i = 0 THEN [has_rated |-> FALSE, rating |-> 0]
    ELSE [has_rated |-> TRUE, rating |-> fb[i].rating]

\* the paths the router hands to GetUserFeedbackHandler for a server and a
\* user: {id}/rating/{user_id}, and the same followed by a slash
RatingPaths(serverID, userID) ==
    {<<serverID, "rating", userID>>, <<serverID, "rating", userID, "">>}

\* GET /vp/servers/{id}/rating/{user_id}[?source]; parts is the path after
\* /vp/servers/ split at "/", which Go indexes from 0
GetUserFeedbackHandler(t, parts, source, dbOK) ==
    LET serverID == parts[1]
        userID == parts[3]
        src == DefaultSource(source)
        r == [NoHReq EXCEPT !.op = "GetUserFeedback", !.id = serverID,
                            !.user = userID, !.source = src, !.n = nreq + 1,
                            !.path = parts, !.dbOK = dbOK]
        v == ValidateSource(src)
        body == UserFeedbackResponse(feedback,
                    GetFeedback(feedback, GetUserFeedback(feedback, serverID, userID, src)))
    IN /\ Accept(t)
       /\ IF Len(parts) < 4 \/ parts[1] = "" \/ parts[3] = ""
          THEN Respond(t, r, 400, NoBody, NoBody)
          ELSE IF ~dbOK \/ ~v.ok
          THEN Respond(t, r, 500, NoBody, NoBody)
          ELSE Respond(t, r, 200, body, body)
       /\ UNCHANGED <<cache, feedback, catalog>>
       /\ UNCHANGED storeVars

\* ------------------------------------------------------ ClaimServerHandler
\* what the Authorization header of a claim request is worth: no header, a
\* header without "Bearer ", a token GitHub rejects, a valid token without
\* access to the repository, a valid token with access
AuthInputs == {"none", "basic", "bad", "token", "repo"}
ClaimIds == Servers \cup {"ghost"}

\* authService.ValidateAuth for a token with and without a RepoRef
ValidateAuth(auth, withRepo) ==
    IF withRepo THEN auth = "repo" ELSE auth \in {"token", "repo"}

\* the checks with the request body decoded before the Authorization header
\* is looked at
ClaimChecksBodyFirst(auth, bodyOK, exists) ==
    IF ~bodyOK THEN 400
    ELSE IF auth = "none" THEN 401
    ELSE IF auth = "basic" THEN 401
    ELSE IF ~ValidateAuth(auth, FALSE) THEN 401
    ELSE IF ~exists THEN 404
    ELSE IF ~ValidateAuth(auth, TRUE) THEN 403
    ELSE 0
\* the checks without the repository-access verification
ClaimChecksNoRepo(auth, bodyOK, exists) ==
    IF auth = "none" THEN 401
    ELSE IF auth = "basic" THEN 401
    ELSE IF ~ValidateAuth(auth, FALSE) THEN 401
    ELSE IF ~bodyOK THEN 400
    ELSE IF ~exists THEN 404
    ELSE 0
\* the status a claim request is rejected with before the catalog is touched,
\* 0 if it passes every check
ClaimChecks(auth, bodyOK, exists) ==
    IF auth = "none" THEN 401
    ELSE IF auth = "basic" THEN 401
    ELSE IF ~ValidateAuth(auth, FALSE) THEN 401
    ELSE IF ~bodyOK THEN 400
    ELSE IF ~exists THEN 404
    ELSE IF ~ValidateAuth(auth, TRUE) THEN 403
    ELSE 0

ClaimServerHandler(t, serverID, auth, bodyOK, transfer) ==
    LET op == "Claim"
        exists == serverID \in DOMAIN catalog
        r == [NoHReq EXCEPT !.op = op, !.id = serverID, !.auth = auth,
                            !.bodyOK = bodyOK, !.transfer = transfer,
                            !.exists = exists, !.n = nreq + 1]
        status == ClaimChecks(auth, bodyOK, exists)
    IN /\ Accept(t)
       /\ IF status # 0
          THEN Respond(t, r, status, NoBody, NoBody)
          ELSE /\ hpc' = [hpc EXCEPT ![t] = "cl_publish"]
               /\ hreq' = [hreq EXCEPT ![t] = r]
               /\ resp' = resp
       /\ UNCHANGED <<cache, feedback, catalog>>
       /\ UNCHANGED storeVars

\* h.service.Publish(newServerDetail)
ClaimPublish(t, publishOK) ==
    LET r == hreq[t]
    IN /\ hpc[t] = "cl_publish"
       /\ IF ~publishOK
          THEN /\ Respond(t, r, 500, NoBody, NoBody)
               /\ catalog' = catalog
          ELSE /\ catalog' = [id \in DOMAIN catalog \cup {r.id} |->
                                 IF id = r.id THEN [owner |-> SourceRegistry]
                                 ELSE catalog[id]]
               /\ hreq' = [hreq EXCEPT ![t].published = TRUE]
               /\ hpc' = [hpc EXCEPT ![t] = IF r.transfer THEN "cl_transfer"
                                             ELSE "cl_invalidate"]
               /\ resp' = resp
       /\ UNCHANGED <<cache, feedback, nreq>>
       /\ UNCHANGED storeVars

\* statsDB.TransferStats(serverID, serverID, COMMUNITY, REGISTRY) up to its merge
ClaimTransfer(t, dbOK) ==
    LET r == hreq[t]
    IN /\ hpc[t] = "cl_transfer"
       /\ TransferStatsFind(t, r.id, r.id, SourceCommunity, SourceRegistry, dbOK)
       /\ hpc' = [hpc EXCEPT ![t] = IF pc'[t] = "hung" THEN "hung"
                                     ELSE IF pc'[t] = "ts_upsert" THEN "cl_upsert"
                                     ELSE "cl_invalidate"]
       /\ hreq' = [hreq EXCEPT ![t].transferCalled = TRUE,
                               ![t].transferred = (pc'[t] = "idle" /\ dbOK)]
       /\ UNCHANGED <<cache, feedback, catalog, resp, nreq>>

\* statsDB.TransferStats from its call of UpsertStats on
ClaimUpsert(t, dbOK) ==
    /\ hpc[t] = "cl_upsert"
    /\ TransferStatsUpsert(t, dbOK)
    /\ hpc' = [hpc EXCEPT ![t] = IF pc'[t] = "hung" THEN "hung" ELSE "cl_invalidate"]
    /\ hreq' = [hreq EXCEPT ![t].transferred = (pc'[t] = "idle" /\ dbOK)]
    /\ UNCHANGED <<cache, feedback, catalog, resp, nreq>>

\* the GetStats after a transfer that returned nil, then the five Deletes
ClaimInvalidate(t) ==
    LET r == hreq[t]
    IN /\ hpc[t] = "cl_invalidate"
       /\ ~r.transferred \/ CanRLock \/ LockedForever
       /\ IF r.transferred /\ ~CanRLock
          THEN /\ hpc' = [hpc EXCEPT ![t] = "hung"]
               /\ cache' = cache
          ELSE /\ cache' = CacheDeleteAll(cache, << <<"vp", "server", r.id>>,
                                                   <<"vp", "stats", r.id>>,
                                                   <<"vp", "stats", r.id, "aggregated">>,
                                                   <<"vp", "servers", "">>,
                                                   <<"vp", "stats", "global">> >>)
               /\ hpc' = [hpc EXCEPT ![t] = "cl_respond"]
       /\ UNCHANGED <<feedback, catalog, hreq, resp, nreq>>
       /\ UNCHANGED storeVars

\* statsDB.GetStats(serverID, REGISTRY) and the 200 response
ClaimRespond(t, dbOK) ==
    LET r == hreq[t]
        serverStats == IF dbOK THEN GetStats(stats, r.id, SourceRegistry).body ELSE NoBody
    IN /\ hpc[t] = "cl_respond"
       /\ CanRLock \/ LockedForever
       /\ IF ~CanRLock
          THEN /\ hpc' = [hpc EXCEPT ![t] = "hung"]
               /\ UNCHANGED <<hreq, resp>>
          ELSE Respond(t, r, 200, serverStats, serverStats)
       /\ UNCHANGED <<cache, feedback, catalog, nreq>>
       /\ UNCHANGED storeVars

\* ------------------------------------------------------ /vp/servers/ router
\* A path below /vp/servers/ is the sequence of its segments, as
\* strings.Split(strings.TrimPrefix(path, "/vp/servers/"), "/") gives them; a
\* segment is the sequence of the words it is spelled with, so that
\* "installer" is <<"install", "er">> and the empty segment is <<>>.
RouteMethods == {"GET", "POST", "PUT", "DELETE"}
\* server ids: a plain one, and ids that begin with a route keyword
RouteIds == {<<"foo">>, <<"install", "er">>, <<"rate", "-limiter">>,
             <<"stats", "-tool">>, <<"claim", "ed">>}
\* what follows the id
RouteSuffixes == {<<>>, << <<"install">> >>, << <<"rate">> >>, << <<"stats">> >>,
                  << <<"claim">> >>, << <<"feedback">> >>,
                  << <<"feedback">>, <<"f1">> >>, << <<"rating">>, <<"u1">> >>}

\* strings.Contains(path, "/" + word): some segment begins with word
ContainsSlashWord(segments, word) ==
    \E i \in 1..Len(segments) : Len(segments[i]) >= 1 /\ segments[i][1] = word
\* strings.Contains(path, "/" + word + "/"): a segment that is word and is
\* followed by another
ContainsSlashWordSlash(segments, word) ==
    \E i \in 1..(Len(segments) - 1) : segments[i] = <<word>>

isServerDetailPath(segments) == Len(segments) = 1 /\ segments[1] # <<>>
isInstallPath(segments) == ContainsSlashWord(segments, "install")
isRatePath(segments) == ContainsSlashWord(segments, "rate")
isStatsPath(segments) ==
    ContainsSlashWord(segments, "stats") /\ ~ContainsSlashWordSlash(segments, "stats")
isClaimPath(segments) == ContainsSlashWord(segments, "claim")

\* the handler the closure registered for "/vp/servers/" calls
Route(method, segments) ==
    IF Len(segments) >= 2 /\ segments[2] = <<"feedback">> /\ method = "GET"
    THEN "GetServerFeedbackHandler"
    ELSE IF Len(segments) >= 2 /\ segments[2] = <<"feedback">> /\ method = "POST"
    THEN "BadRequest"
    ELSE IF Len(segments) >= 3 /\ segments[2] = <<"feedback">> /\ method = "PUT"
    THEN "UpdateFeedbackHandler"
    ELSE IF Len(segments) >= 3 /\ segments[2] = <<"feedback">> /\ method = "DELETE"
    THEN "DeleteFeedbackHandler"
    ELSE IF Len(segments) >= 3 /\ segments[2] = <<"rating">> /\ method = "GET"
    THEN "GetUserFeedbackHandler"
    ELSE IF method = "GET" /\ segments = << <<>> >> THEN "GetServersHandler"
    ELSE IF method = "POST" /\ isInstallPath(segments) THEN "TrackInstallHandler"
    ELSE IF method = "POST" /\ isRatePath(segments) THEN "SubmitFeedbackHandler"
    ELSE IF method = "GET" /\ isStatsPath(segments) THEN "GetStatsHandler"
    ELSE IF method = "POST" /\ isClaimPath(segments) THEN "ClaimServerHandler"
    ELSE IF method = "GET" /\ isServerDetailPath(segments) THEN "GetServerByIDHandler"
    ELSE "NotFound"

\* a request to /vp/servers/{id}{suffix} reaches the closure, which picks the
\* handler; resp.op names it
Dispatch(t, method, id, suffix) ==
    LET segments == <<id>> \o suffix
        handler == Route(method, segments)
        r == [NoHReq EXCEPT !.op = handler, !.method = method, !.path = segments,
                            !.n = nreq + 1]
    IN /\ Accept(t)
       /\ Respond(t, r, IF handler = "NotFound" THEN 404
                        ELSE IF handler = "BadRequest" THEN 400 ELSE 0,
                  NoBody, NoBody)
       /\ UNCHANGED <<cache, feedback, catalog>>
       /\ UNCHANGED storeVars

\* ----------------------------------------------- GetDashboardMetricsHandler
\* period query parameters; "" is read as "day", "hour" is not a valid period
PeriodInputs == {"", "day", "week", "hour"}
ValidPeriods == {"day", "week", "month", "year"}
\* the external analytics client: not configured, answering, failing
ClientInputs == {"nil", "ok", "fail"}

\* the payload, a stats.DashboardMetrics on either path
DashboardPayload(from, period) ==
    [type |-> "DashboardMetrics", from |-> from, period |-> period]

\* the handler after a cache miss, answering a failed client with an error
DashboardFetchNoFallback(ext, localOK, period) ==
    IF ext = "ok" THEN [status |-> 200, body |-> DashboardPayload("client", period)]
    ELSE IF ext = "fail" THEN [status |-> 500, body |-> NoBody]
    ELSE IF ~localOK THEN [status |-> 500, body |-> NoBody]
    ELSE [status |-> 200, body |-> DashboardPayload("local", period)]
\* the handler after a cache miss: the client when configured and answering,
\* else analyticsDB.GetAnalyticsMetrics
DashboardFetch(ext, localOK, period) ==
    IF ext = "ok" THEN [status |-> 200, body |-> DashboardPayload("client", period)]
    ELSE IF ~localOK THEN [status |-> 500, body |-> NoBody]
    ELSE [status |-> 200, body |-> DashboardPayload("local", period)]

GetDashboardMetricsHandler(t, periodParam, ext, localOK) ==
    LET period == IF periodParam = "" THEN "day" ELSE periodParam
        cacheKey == <<"vp", "dashboard", period>>
        hit == period \in ValidPeriods /\ CacheLive(cache, cacheKey, clock)
        r == [NoHReq EXCEPT !.op = "GetDashboard", !.source = period, !.ext = ext,
                            !.dbOK = localOK, !.hit = hit, !.n = nreq + 1]
        res == DashboardFetch(ext, localOK, period)
    IN /\ Accept(t)
       /\ IF period \notin ValidPeriods
          THEN /\ Respond(t, r, 400, NoBody, NoBody)
               /\ cache' = cache
          ELSE IF hit
          THEN /\ Respond(t, r, 200, cache[cacheKey].data, cache[cacheKey].data)
               /\ cache' = cache
          ELSE /\ Respond(t, r, res.status, res.body, res.body)
               /\ cache' = IF res.status = 200
                           THEN CacheSet(cache, cacheKey, res.body, clock)
                           ELSE cache
       /\ UNCHANGED <<feedback, catalog>>
       /\ UNCHANGED storeVars

\* ------------------------------------------------ CheckAndRecordMilestones
\* the thresholds on total installs, in the order the loop visits them
MilestoneThresholds == <<100, 500, 1000, 5000, 10000, 50000, 100000>>
\* total_installs values the global metrics document may hold
TotalInstallsInputs == {0, 100, 500}

\* the next threshold after position i that total has reached, 0 when the
\* loop is over
NextMilestone(i, total) ==
    LET js == {j \in (i + 1)..Len(MilestoneThresholds) : total >= MilestoneThresholds[j]}
    IN IF js = {} THEN 0 ELSE CHOOSE j \in js : \A k \in js : j <= k

\* CountDocuments({type: "installs", milestone: m})
CountMilestones(coll, m) ==
    Cardinality({k \in 1..Len(coll) : coll[k].type = "installs" /\ coll[k].milestone = m})

\* enter position j of the loop, or return when j = 0
MilestoneStep(t, j) ==
    mile' = [mile EXCEPT ![t].i = j,
                         ![t].phase = IF j = 0 THEN "idle" ELSE "count"]

\* GetAnalyticsMetrics(ctx, "all"), then up to the first CountDocuments
CheckAndRecordMilestones(t, total, dbOK) ==
    /\ mile[t].phase = "idle"
    /\ mile[t].calls < MaxOps
    /\ mile' = [mile EXCEPT
                  ![t].calls = @ + 1,
                  ![t].total = total,
                  ![t].i = IF dbOK THEN NextMilestone(0, total) ELSE 0,
                  ![t].phase = IF dbOK /\ NextMilestone(0, total) # 0
                               THEN "count" ELSE "idle"]
    /\ UNCHANGED milestones

\* count, _ := CountDocuments(filter): a failed count reads as 0
MilestoneCount(t, countOK) ==
    LET m == MilestoneThresholds[mile[t].i]
        count == IF countOK THEN CountMilestones(milestones, m) ELSE 0
    IN /\ mile[t].phase = "count"
       /\ IF count = 0
          THEN mile' = [mile EXCEPT ![t].phase = "insert"]
          ELSE MilestoneStep(t, NextMilestone(mile[t].i, mile[t].total))
       /\ UNCHANGED milestones

\* InsertOne(event), its error dropped
MilestoneInsert(t, insertOK) ==
    LET m == MilestoneThresholds[mile[t].i]
    IN /\ mile[t].phase = "insert"
       /\ milestones' = IF insertOK
                        THEN Append(milestones, [type |-> "installs", milestone |-> m])
                        ELSE milestones
       /\ MilestoneStep(t, NextMilestone(mile[t].i, mile[t].total))

\* ------------------------------------------------------------ sorted reads
MinOf(a, b) == IF a <= b THEN a ELSE b

\* the orders in which a cursor may deliver the documents S
Orders(S) ==
    {p \in [1..Cardinality(S) -> S] : \A i, j \in 1..Cardinality(S) : i # j => p[i] # p[j]}

\* the orders a descending $sort allows, leq[x, y] saying that x sorts no
\* higher than y: documents with equal sort keys come in any order
SortedDesc(S, leq) ==
    {p \in Orders(S) : \A i, j \in 1..Cardinality(S) : i < j => leq[p[j], p[i]]}

\* $limit n
Take(p, n) == [i \in 1..MinOf(n, Cardinality(DOMAIN p)) |-> p[i]]

Cat(p, q) ==
    LET n == Cardinality(DOMAIN p)
    IN [i \in 1..(n + Cardinality(DOMAIN q)) |-> IF i <= n THEN p[i] ELSE q[i - n]]

\* the i-th smallest member of a set of numbers
Nth(J, i) == CHOOSE j \in J : Cardinality({k \in J : k < j}) = i - 1

\* BSON null, written as a fraction no number has
Null == <<0, 0>>
MulNull(x, y) ==
    IF x = Null \/ y = Null THEN Null ELSE RatNorm(x[1] * y[1], x[2] * y[2])
AddNull(x, y) == IF x = Null \/ y = Null THEN Null ELSE RatPlus(x, y)
\* BSON comparison order: null sorts below every number
ScoreLeq(x, y) == x = Null \/ (y # Null /\ RatLeq(x, y))

\* "$name" in a pipeline over server_stats: null for a field the document
\* does not have; active_installs is omitempty and absent when 0
StatsField(doc, name) ==
    IF name \notin DOMAIN doc THEN Null
    ELSE IF name = "rating" THEN doc.rating
    ELSE IF name = "active_installs" /\ doc.active_installs = 0 THEN Null
    ELSE RatOfInt(doc[name])

\* -------------------------------------------------------------- GetTrending
\* trend_score of the $addFields stage: weekly_growth * 10 +
\* installation_count * 0.1 + rating * (rating_count * 0.05) +
\* active_installs * 0.3
TrendScore(doc) ==
    AddNull(AddNull(AddNull(MulNull(StatsField(doc, "weekly_growth"), <<10, 1>>),
                            MulNull(StatsField(doc, "installation_count"), <<1, 10>>)),
                    MulNull(StatsField(doc, "rating"),
                            MulNull(StatsField(doc, "rating_count"), <<1, 20>>))),
            MulNull(StatsField(doc, "active_installs"), <<3, 10>>))

ValidateLimit(limit) == limit >= 1 /\ limit <= 1000

\* the results the pipeline may deliver: lists of keys of server_stats
GetTrending(coll, limit, source) ==
    LET v == ValidateSource(source)
        keys == {k \in DOMAIN coll : v.value \in {"", "ALL"} \/ coll[k].source = v.value}
    IN {Take(p, limit) :
          p \in SortedDesc(keys, [x \in keys, y \in keys |->
                                      ScoreLeq(TrendScore(coll[x]), TrendScore(coll[y]))])}

\* -------------------------------------------------------------- list reads
\* CreateSafeFilter: no source condition for "" and for "ALL"
CreateSafeFilter(source) ==
    LET v == ValidateSource(source)
    IN [ok |-> v.ok, all |-> v.value \in {"", "ALL"}, source |-> v.value]
\* the documents a filter with the given source condition matches
Matching(coll, source) ==
    {k \in DOMAIN coll : source \in {"", "ALL"} \/ coll[k].source = ValidateSource(source).value}

\* the lists GetTopByInstalls may return: sorted by installation_count
GetTopByInstalls(coll, limit, source) ==
    LET keys == Matching(coll, IF CreateSafeFilter(source).all THEN "" ELSE source)
    IN {Take(p, limit) :
          p \in SortedDesc(keys, [x \in keys, y \in keys |->
                  coll[x].installation_count <= coll[y].installation_count])}

\* GetTopByRating: documents rated at least 5 times, sorted by rating
GetTopByRating(coll, limit, source) ==
    LET keys == {k \in Matching(coll, source) : coll[k].rating_count >= 5}
    IN {Take(p, limit) :
          p \in SortedDesc(keys, [x \in keys, y \in keys |->
                  RatLeq(coll[x].rating, coll[y].rating)])}

\* GetRecentServers: sorted by first_seen
GetRecentServers(coll, limit, source) ==
    LET keys == Matching(coll, source)
    IN {Take(p, limit) :
          p \in SortedDesc(keys, [x \in keys, y \in keys |->
                  coll[x].first_seen <= coll[y].first_seen])}

StatsQueries == {"GetGlobalStats", "GetTopByInstalls", "GetTopByRating",
                 "GetRecentServers", "GetTrending"}
\* what a read of the store may return
ReadResults(coll, query, limit, source) ==
    CASE query = "GetGlobalStats" -> {GetGlobalStats(coll, source)}
      [] query = "GetTopByInstalls" -> GetTopByInstalls(coll, limit, source)
      [] query = "GetTopByRating" -> GetTopByRating(coll, limit, source)
      [] query = "GetRecentServers" -> GetRecentServers(coll, limit, source)
      [] query = "GetTrending" -> GetTrending(coll, limit, source)

\* one of the five reads called on the store, with the error it returns for
\* a limit or a source that fails validation
ReadStats(t, query, limit, source) ==
    LET r == [NoHReq EXCEPT !.op = query, !.source = source, !.n = nreq + 1,
                            !.existing = limit]
    IN /\ Accept(t)
       /\ CanRLock
       /\ IF (query # "GetGlobalStats" /\ ~ValidateLimit(limit)) \/ ~ValidateSource(source).ok
          THEN Respond(t, r, 500, NoBody, NoBody)
          ELSE \E res \in ReadResults(stats, query, limit, source) :
                  Respond(t, r, 200, res, NoBody)
       /\ UNCHANGED <<cache, feedback, catalog>>
       /\ UNCHANGED storeVars
       /\ UNCHANGED analyticsVars

\* ------------------------------------------------------- GetTrendingHandler
\* the limit parameter as a number, 0 when it is absent or not a number
TrendingLimitInputs == {0, 2}
TrendingSourceInputs == {"", "bogus"}

\* strconv.Atoi and the range check, 20 by default
ParseTrendingLimit(limitParam) ==
    IF limitParam > 0 /\ limitParam <= 100 THEN limitParam ELSE 20

TrendingCacheKey(limit, source) ==
    IF source # "" THEN <<"vp", "trending", ToString(limit), source>>
    ELSE <<"vp", "trending", ToString(limit)>>

NewExtendedServer(id, s) ==
    [id |-> id, installation_count |-> s.installation_count, rating |-> s.rating,
     rating_count |-> s.rating_count, active_installs |-> s.active_installs]

\* the servers that service.GetByID finds, in the order of the trending
\* list, each with statsMap[id], the last stats of its id in the list
NewExtendedServers(res, coll, servers) ==
    LET J == {j \in DOMAIN res : res[j][1] \in DOMAIN servers}
        statsMap(id) ==
            LET js == {j \in DOMAIN res : res[j][1] = id}
            IN coll[res[CHOOSE j \in js : \A k \in js : k <= j]]
    IN [i \in 1..Cardinality(J) |->
          NewExtendedServer(res[Nth(J, i)][1], statsMap(res[Nth(J, i)][1]))]

\* -------------------------------------------------- GetServerFeedbackHandler
\* GetServerFeedback with the default limit 20, offset 0 and sort newest:
\* the feedback of (serverID, source), the last inserted first
GetServerFeedback(fb, serverID, source) ==
    LET v == ValidateSource(DefaultSource(source))
        J == {i \in 1..Len(fb) : fb[i].server_id = serverID /\ fb[i].source = v.value}
        n == Cardinality(J)
    IN [feedback |-> [i \in 1..n |-> fb[Nth(J, n + 1 - i)]],
        total_count |-> n, has_more |-> FALSE]

\* "Return empty response on error"
EmptyFeedbackResponse == [feedback |-> <<>>, total_count |-> 0, has_more |-> FALSE]

\* GET /vp/servers/{id}/feedback[?source]: the cache key and statsCache.Get
GetServerFeedbackHandler(t, serverID, source) ==
    LET src == DefaultSource(source)
        cacheKey == <<"vp", "feedback", serverID, src, "20", "0", "newest">>
        r == [NoHReq EXCEPT !.op = "GetServerFeedback", !.id = serverID, !.source = src,
                            !.key = cacheKey, !.n = nreq + 1]
    IN /\ Accept(t)
       /\ IF CacheLive(cache, cacheKey, clock)
          THEN Respond(t, [r EXCEPT !.hit = TRUE], 200, cache[cacheKey].data, NoBody)
          ELSE /\ hpc' = [hpc EXCEPT ![t] = "gf_read"]
               /\ hreq' = [hreq EXCEPT ![t] = r]
               /\ resp' = resp
       /\ UNCHANGED <<cache, feedback, catalog>>
       /\ UNCHANGED storeVars

\* feedbackDB.GetServerFeedback; its error (a failed query, a cancelled
\* request context) is logged and replaced by the empty response
GetServerFeedbackRead(t, dbOK) ==
    LET r == hreq[t]
        feedbackResponse == IF dbOK THEN GetServerFeedback(feedback, r.id, r.source)
                            ELSE EmptyFeedbackResponse
    IN /\ hpc[t] = "gf_read"
       /\ hreq' = [hreq EXCEPT ![t].body = feedbackResponse, ![t].dbOK = dbOK]
       /\ hpc' = [hpc EXCEPT ![t] = "set"]
       /\ UNCHANGED <<cache, feedback, catalog, resp, nreq>>
       /\ UNCHANGED storeVars

\* ------------------------------------------------------ GetServerByIDHandler
\* GET /vp/servers/{id}[?source]: statsCache.Get, service.GetByID and the
\* check of the source
GetServerByIDHandler(t, serverID, source) ==
    LET cacheKey == <<"vp", "server", serverID>>
        r == [NoHReq EXCEPT !.op = "GetServerByID", !.id = serverID, !.source = source,
                            !.key = cacheKey, !.n = nreq + 1,
                            !.exists = serverID \in DOMAIN catalog]
    IN /\ Accept(t)
       /\ IF CacheLive(cache, cacheKey, clock)
          THEN Respond(t, [r EXCEPT !.hit = TRUE], 200, cache[cacheKey].data, NoBody)
          ELSE IF serverID \notin DOMAIN catalog
          THEN Respond(t, r, 404, NoBody, NoBody)
          ELSE IF ~validateSource(source)
          THEN Respond(t, r, 400, NoBody, NoBody)
          ELSE /\ hpc' = [hpc EXCEPT ![t] = "gs_read"]
               /\ hreq' = [hreq EXCEPT ![t] = r]
               /\ resp' = resp
       /\ UNCHANGED <<cache, feedback, catalog>>
       /\ UNCHANGED storeVars

\* statsDB.GetStats; on its error the handler goes on with
\* &stats.ServerStats{ServerID: serverID, Source: source}
GetServerByIDRead(t, dbOK) ==
    LET r == hreq[t]
        got == GetStats(stats, r.id, r.source)
        ok == dbOK /\ got.ok
        serverStats == IF ok THEN FindOne(stats, <<r.id, ValidateSource(DefaultSource(r.source)).value>>)
                       ELSE ZeroStats
    IN /\ hpc[t] = "gs_read"
       /\ CanRLock \/ LockedForever
       /\ IF ~CanRLock
          THEN /\ hpc' = [hpc EXCEPT ![t] = "hung"]
               /\ hreq' = hreq
          ELSE /\ hreq' = [hreq EXCEPT ![t].body = NewExtendedServer(r.id, serverStats),
                                       ![t].dbOK = ok]
               /\ hpc' = [hpc EXCEPT ![t] = "set"]
       /\ UNCHANGED <<cache, feedback, catalog, resp, nreq>>
       /\ UNCHANGED storeVars

\* GET /vp/stats/trending[?limit][&source]
GetTrendingHandler(t, limitParam, source, dbOK) ==
    LET limit == ParseTrendingLimit(limitParam)
        cacheKey == TrendingCacheKey(limit, source)
        r == [NoHReq EXCEPT !.op = "GetTrending", !.source = source,
                            !.key = cacheKey, !.n = nreq + 1, !.dbOK = dbOK]
    IN /\ Accept(t)
       /\ IF source \notin {"", SourceRegistry, SourceCommunity, "ALL"}
          THEN Respond(t, r, 400, NoBody, NoBody) /\ cache' = cache
          ELSE IF CacheLive(cache, cacheKey, clock)
          THEN /\ Respond(t, [r EXCEPT !.hit = TRUE], 200, cache[cacheKey].data, NoBody)
               /\ cache' = cache
          ELSE IF ~dbOK \/ ~ValidateLimit(limit)
          THEN Respond(t, r, 500, NoBody, NoBody) /\ cache' = cache
          ELSE /\ CanRLock
               /\ \E res \in GetTrending(stats, limit, source) :
                     LET response == [limit |-> limit,
                                      servers |-> NewExtendedServers(res, stats, catalog)]
                     IN /\ cache' = CacheSet(cache, cacheKey, response, clock)
                        /\ Respond(t, r, 200, response, response)
       /\ UNCHANGED <<feedback, catalog>>
       /\ UNCHANGED storeVars

\* ------------------------------------------------- UpdateAnalyticsMetrics
\* BSON values of the global_metrics document: a number, or an embedded
\* document of one or two numeric fields
Num(n) == <<"int", n>>
Doc(k, n) == <<"doc", k, n>>
Doc2(k1, n1, k2, n2) == <<"doc", k1, n1, k2, n2>>

\* how the server takes an update whose "$set" carries a field name that
\* begins with "$": servers before 5.0 refuse it, later ones store it
SetOutcomes == {"unavailable", "rejected", "stored"}

\* UpdateOne(filter, {"$set": updates}, upsert) with last_updated added
UpdateAnalyticsMetrics(doc, updates, now, outcome) ==
    IF outcome = "stored"
    THEN [f \in DOMAIN doc \cup DOMAIN updates \cup {"last_updated"} |->
            IF f = "last_updated" THEN Num(now)
            ELSE IF f \in DOMAIN updates THEN updates[f] ELSE doc[f]]
    ELSE doc
UpdateError(outcome) == IF outcome = "stored" THEN "" ELSE outcome

\* the int64 a counter of AnalyticsMetrics decodes to: 0 for a missing field,
\* and no number (-1) for an embedded document
CounterOf(doc, f) ==
    IF f \notin DOMAIN doc THEN 0
    ELSE IF doc[f][1] = "int" THEN doc[f][2] ELSE -1

\* ---------------------------------------------------------- RecordActivity
EventTypes == {"install", "rating", "search", "update"}
\* the updates map RecordActivity builds for an event type
ActivityUpdates(type) ==
    LET counters == IF type = "install" THEN {"total_installs", "installs_today"}
                    ELSE IF type = "rating" THEN {"total_ratings"}
                    ELSE IF type = "search" THEN {"total_searches"}
                    ELSE {}
    IN [f \in counters |-> Doc("$inc", 1)]

ReturnACall(t, err) ==
    acall' = [acall EXCEPT ![t] = [NoACall EXCEPT !.err = err]]

\* event.Timestamp = time.Now()
RecordActivity(t, type, id) ==
    /\ acall[t].phase = "idle"
    /\ nreq < MaxOps
    /\ nreq' = nreq + 1
    /\ acall' = [acall EXCEPT ![t] = [NoACall EXCEPT !.op = "RecordActivity",
                     !.phase = "insert", !.type = type, !.id = id, !.now = clock]]
    /\ UNCHANGED <<cacheLog, milestones, mile, adb>>
    /\ UNCHANGED <<cache, feedback, catalog, hpc, hreq, resp>>
    /\ UNCHANGED storeVars

\* activityCollection.InsertOne(ctx, event), and the return when it fails or
\* when the event type has no counter
RecordActivityInsert(t, insertOK) ==
    LET c == acall[t]
        event == [type |-> c.type, server_id |-> c.id, timestamp |-> c.now]
    IN /\ c.op = "RecordActivity"
       /\ c.phase = "insert"
       /\ IF ~insertOK
          THEN ReturnACall(t, "unavailable") /\ adb' = adb
          ELSE /\ adb' = [adb EXCEPT !.activityCollection = Append(@, event)]
               /\ IF DOMAIN ActivityUpdates(c.type) # {}
                  THEN acall' = [acall EXCEPT ![t].phase = "counters"]
                  ELSE ReturnACall(t, "")
       /\ UNCHANGED <<cacheLog, milestones, mile>>
       /\ UNCHANGED httpVars
       /\ UNCHANGED storeVars

\* return db.UpdateAnalyticsMetrics(ctx, updates)
RecordActivityCounters(t, outcome) ==
    LET c == acall[t]
    IN /\ c.op = "RecordActivity"
       /\ c.phase = "counters"
       /\ adb' = [adb EXCEPT !.metricsCollection =
                     UpdateAnalyticsMetrics(@, ActivityUpdates(c.type), clock, outcome)]
       /\ ReturnACall(t, UpdateError(outcome))
       /\ UNCHANGED <<cacheLog, milestones, mile>>
       /\ UNCHANGED httpVars
       /\ UNCHANGED storeVars

\* ------------------------------------------------------------ TrackAPICall
Endpoints == {"/vp/servers"}
Methods == {"GET", "POST"}
\* durations in milliseconds
Durations == {10, 30}

FindAPICall(coll, k) == IF k \in DOMAIN coll THEN coll[k] ELSE NoAPICall

\* the update document is built (last_called: time.Now()), then FindOne reads
\* the current record to compute the new average; any FindOne error, not
\* found included, makes the average the call's own duration
TrackAPICall(t, endpoint, method, duration, isError, findOK) ==
    LET k == <<endpoint, method>>
        coll == adb.apiCallsCollection
        current == coll[k]
        newAvg == IF findOK /\ k \in DOMAIN coll
                  THEN RatDivInt(RatPlus(RatTimesInt(current.avg_duration, current.count),
                                         RatOfInt(duration)),
                                 current.count + 1)
                  ELSE RatOfInt(duration)
    IN /\ acall[t].phase = "idle"
       /\ nreq < MaxOps
       /\ nreq' = nreq + 1
       /\ acall' = [acall EXCEPT ![t] = [NoACall EXCEPT !.op = "TrackAPICall",
                        !.phase = "update", !.endpoint = endpoint, !.method = method,
                        !.duration = duration, !.isError = isError, !.now = clock,
                        !.avg_duration = newAvg]]
       /\ UNCHANGED <<cacheLog, milestones, mile, adb>>
       /\ UNCHANGED <<cache, feedback, catalog, hpc, hreq, resp>>
       /\ UNCHANGED storeVars

\* apiCallsCollection.UpdateOne(filter, {"$inc": ..., "$set": ...}, upsert)
TrackAPICallUpdate(t, updateOK) ==
    LET c == acall[t]
        k == <<c.endpoint, c.method>>
        coll == adb.apiCallsCollection
        old == FindAPICall(coll, k)
        new == [count |-> old.count + 1,
                error_count |-> old.error_count + (IF c.isError THEN 1 ELSE 0),
                avg_duration |-> c.avg_duration,
                last_called |-> c.now]
    IN /\ c.op = "TrackAPICall"
       /\ c.phase = "update"
       /\ IF ~updateOK
          THEN ReturnACall(t, "unavailable") /\ adb' = adb
          ELSE /\ adb' = [adb EXCEPT !.apiCallsCollection =
                             [j \in DOMAIN coll \cup {k} |-> IF j = k THEN new ELSE coll[j]]]
               /\ acall' = [acall EXCEPT ![t].phase = "global"]
       /\ UNCHANGED <<cacheLog, milestones, mile>>
       /\ UNCHANGED httpVars
       /\ UNCHANGED storeVars

\* globalUpdate, handed to UpdateAnalyticsMetrics
GlobalUpdate(isError) ==
    [f \in {"$inc"} |-> IF isError THEN Doc2("total_api_calls", 1, "error_count", 1)
                                  ELSE Doc("total_api_calls", 1)]

\* return db.UpdateAnalyticsMetrics(ctx, globalUpdate)
TrackAPICallGlobal(t, outcome) ==
    LET c == acall[t]
    IN /\ c.op = "TrackAPICall"
       /\ c.phase = "global"
       /\ adb' = [adb EXCEPT !.metricsCollection =
                     UpdateAnalyticsMetrics(@, GlobalUpdate(c.isError), clock, outcome)]
       /\ ReturnACall(t, UpdateError(outcome))
       /\ UNCHANGED <<cacheLog, milestones, mile>>
       /\ UNCHANGED httpVars
       /\ UNCHANGED storeVars

\* ----------------------------------------------------------- HealthMonitor
HealthServers == {"a", "b"}
StatusCodes == {200, 404, 500}
\* time.Since(start).Milliseconds()
ResponseTimes == {1000, 1001}

\* what checkServerHealth hands to recordHealthCheck: urlOK tells whether
\* http.NewRequestWithContext accepted config.HealthURL, doOK whether
\* client.Do returned a response
ProbeResult(urlOK, doOK, code, responseTime) ==
    IF ~urlOK
    THEN [status |-> "error", response_time |-> 0, message |-> <<"err.Error()">>]
    ELSE IF ~doOK
    THEN [status |-> "down", response_time |-> responseTime, message |-> <<"err.Error()">>]
    ELSE IF code >= 500
    THEN [status |-> "down", response_time |-> responseTime, message |-> <<"HTTP", code>>]
    ELSE IF code >= 400
    THEN [status |-> "degraded", response_time |-> responseTime, message |-> <<"HTTP", code>>]
    ELSE IF responseTime > 1000
    THEN [status |-> "slow", response_time |-> responseTime,
          message |-> <<"HTTP", code, "slow response">>]
    ELSE [status |-> "healthy", response_time |-> responseTime, message |-> <<"HTTP", code>>]

\* calculateAvailability: FindOne reads the record as it is stored before
\* the update of this check
calculateAvailability(coll, serverID, findOK) ==
    IF ~findOK \/ serverID \notin DOMAIN coll THEN <<0, 1>>
    ELSE IF coll[serverID].status = "down" THEN <<0, 1>>
    ELSE IF coll[serverID].status = "healthy" THEN <<999, 10>>
    ELSE IF coll[serverID].status = "slow" THEN <<95, 1>>
    ELSE IF coll[serverID].status = "degraded" THEN <<75, 1>>
    ELSE <<50, 1>>

\* the document recordHealthCheck upserts
recordHealthCheck(coll, serverID, probe, now, findOK) ==
    [id \in DOMAIN coll \cup {serverID} |->
        IF id = serverID
        THEN [status |-> probe.status, response_time |-> probe.response_time,
              last_health_check |-> now, message |-> probe.message,
              availability |-> calculateAvailability(coll, serverID, findOK)]
        ELSE coll[id]]

\* one check of the monitor goroutine on a registered server
checkServerHealth(serverID, urlOK, doOK, code, responseTime, findOK, updateOK) ==
    /\ nreq < MaxOps
    /\ nreq' = nreq + 1
    /\ adb' = [adb EXCEPT !.healthCollection =
                  IF updateOK
                  THEN recordHealthCheck(@, serverID,
                           ProbeResult(urlOK, doOK, code, responseTime), clock, findOK)
                  ELSE @]
    /\ UNCHANGED <<cacheLog, milestones, mile, acall>>
    /\ UNCHANGED <<cache, feedback, catalog, hpc, hreq, resp>>
    /\ UNCHANGED storeVars

RECURSIVE TotalAvailability(_, _)
TotalAvailability(coll, S) ==
    IF S = {} THEN <<0, 1>>
    ELSE LET id == CHOOSE x \in S : TRUE
         IN RatPlus(coll[id].availability, TotalAvailability(coll, S \ {id}))

\* "$avg": "$availability" over the one group of all records; without a
\* record the cursor is empty and result keeps its zero value
AvgAvailability(coll) ==
    IF DOMAIN coll = {} THEN <<0, 1>>
    ELSE RatDivInt(TotalAvailability(coll, DOMAIN coll), Cardinality(DOMAIN coll))

DefaultUptime == <<999, 10>>
UptimePercentage(coll) ==
    IF AvgAvailability(coll) = <<0, 1>> THEN DefaultUptime ELSE AvgAvailability(coll)

\* a call of GetUptimePercentage(ctx) and what it returns
GetUptimePercentage(t, dbOK) ==
    LET r == [NoHReq EXCEPT !.op = "GetUptimePercentage", !.n = nreq + 1, !.dbOK = dbOK]
    IN /\ Accept(t)
       /\ IF ~dbOK
          THEN Respond(t, r, 500, NoBody, NoBody)
          ELSE Respond(t, r, 200, [uptime |-> UptimePercentage(adb.healthCollection)], NoBody)
       /\ UNCHANGED <<cache, feedback, catalog>>
       /\ UNCHANGED storeVars
       /\ UNCHANGED analyticsVars

\* -------------------------------------------------------- GetGrowthMetrics
GrowthMetricInputs == {"installs", "users", "api_calls", "servers", "ratings", "searches",
                       "bogus"}
\* what the calculate...Growth queries count in one window
WindowCounts == {0, 1, 2}
RatMinus(r, s) == RatPlus(r, <<-s[1], s[2]>>)

GrowthRate(current, previous) ==
    IF previous > 0 THEN RatNorm((current - previous) * 100, previous)
    ELSE IF current > 0 THEN <<100, 1>>
    ELSE <<0, 1>>

\* the second switch on metric: the count of the window before the previous
\* one, which only four of the metrics query
MomentumValue(metric, prior) ==
    IF metric \in {"installs", "users", "api_calls", "searches"} THEN prior ELSE 0

\* the GrowthMetrics that GetGrowthMetrics builds from the counts of the
\* current, the previous and the prior-previous window
GrowthMetrics(metric, current, previous, prior) ==
    LET rate == GrowthRate(current, previous)
        momentumValue == MomentumValue(metric, prior)
        previousGrowth == RatNorm((previous - momentumValue) * 100, momentumValue)
        momentum == IF momentumValue > 0 THEN RatMinus(rate, previousGrowth) ELSE <<0, 1>>
    IN [metric |-> metric, current_value |-> current, previous_value |-> previous,
        growth_rate |-> rate, absolute_change |-> current - previous,
        momentum |-> momentum,
        trend |-> IF momentumValue > 0
                  THEN IF momentum[1] > 0 THEN "accelerating"
                       ELSE IF momentum[1] < (-5) * momentum[2] THEN "decelerating"
                       ELSE "steady"
                  ELSE "new"]

\* a call of GetGrowthMetrics(ctx, metric, period); the response carries the
\* GrowthMetrics and, as fresh, the counts the three windows held
GetGrowthMetrics(t, metric, current, previous, prior) ==
    LET r == [NoHReq EXCEPT !.op = "GetGrowthMetrics", !.n = nreq + 1]
    IN /\ Accept(t)
       /\ IF metric \notin {"installs", "users", "api_calls", "servers", "ratings", "searches"}
          THEN Respond(t, r, 500, NoBody, NoBody)
          ELSE Respond(t, r, 200, GrowthMetrics(metric, current, previous, prior),
                       [current |-> current, previous |-> previous, prior |-> prior])
       /\ UNCHANGED <<cache, feedback, catalog>>
       /\ UNCHANGED storeVars
       /\ UNCHANGED analyticsVars

\* --------------------------------------------------------- CORS middleware
\* allow-lists as CORS holds them, split at "," and trimmed
OriginLists == {<<"https://a.example">>, <<"https://a.example", "https://b.example">>,
                <<"*">>, <<"">>}
\* the Origin header of a request, "" when it has none
OriginInputs == {"", "https://a.example", "https://b.example", "https://evil.example"}
MethodInputs == {"GET", "POST", "OPTIONS"}

\* the headers the middleware sets itself
CORSHeaders(origins, origin, method) ==
    LET allowed == \E i \in 1..Len(origins) : origins[i] = "*" \/ origins[i] = origin
        grant == IF allowed /\ origin # ""
                 THEN {"Access-Control-Allow-Origin", "Access-Control-Allow-Credentials"}
                 ELSE {}
        rest == IF method = "OPTIONS"
                THEN {"Access-Control-Allow-Methods", "Access-Control-Allow-Headers",
                      "Access-Control-Max-Age"}
                ELSE {"Vary"}
    IN [h \in grant \cup rest |->
          CASE h = "Access-Control-Allow-Origin" -> origin
            [] h = "Access-Control-Allow-Credentials" -> "true"
            [] h = "Access-Control-Allow-Methods" -> "GET, POST, PUT, DELETE, OPTIONS"
            [] h = "Access-Control-Allow-Headers" ->
                 "Accept, Content-Type, Content-Length, Accept-Encoding, Authorization, X-CSRF-Token"
            [] h = "Access-Control-Max-Age" -> "86400"
            [] h = "Vary" -> "Origin"]

\* a request through the handler CORS(allowedOrigins) returns; status 200 is
\* what the middleware writes for OPTIONS, 0 stands for the next handler's
CORS(t, origins, origin, method) ==
    LET r == [NoHReq EXCEPT !.op = "CORS", !.method = method, !.n = nreq + 1]
    IN /\ Accept(t)
       /\ Respond(t, r, IF method = "OPTIONS" THEN 200 ELSE 0,
                  [origin |-> origin, header |-> CORSHeaders(origins, origin, method)],
                  [origins |-> origins])
       /\ UNCHANGED <<cache, feedback, catalog>>
       /\ UNCHANGED storeVars
       /\ UNCHANGED analyticsVars

\* -------------------------------------------------------- CalculateTrending
\* 24 hours pass: the recent events become the previous ones, the previous
\* ones leave the 48 hour window, and every cache entry expires
DayPasses ==
    /\ clock + DayTicks <= MaxClock
    /\ clock' = clock + DayTicks
    /\ UNCHANGED analyticsVars
    /\ UNCHANGED httpVars
    /\ UNCHANGED <<stats, mu, pc, req, ops, okInstalls, okRatings, xferLog>>

\* the groups of the $group stage: the servers with an install event of the
\* last 48 hours
ActiveIds(act) == {id \in DOMAIN act : act[id].recent + act[id].previous > 0}
InstallVelocity(a) == RatNorm(a.recent, 24)
MomentumChange(a) ==
    IF a.previous = 0 THEN <<100, 1>>
    ELSE RatNorm((a.recent - a.previous) * 100, a.previous)
TrendingScore(a) == RatPlus(InstallVelocity(a), RatDivInt(MomentumChange(a), 10))

TrendingEntry(id, a) ==
    [server_id |-> id, trending_score |-> TrendingScore(a),
     install_velocity |-> InstallVelocity(a), momentum_change |-> MomentumChange(a),
     recent_installs |-> a.recent, previous_installs |-> a.previous,
     trend_period |-> "24h"]

\* Collection("stats") of the database: the stats database keeps its
\* documents in "server_stats", and nothing writes "stats"
StatsCollection == {}

\* "$field" of a document of Collection("stats")
DocField(doc, name) == IF name \in DOMAIN doc THEN RatOfInt(doc[name]) ELSE Null

\* rating descending, then install_count descending
TopRatedLeq(x, y) ==
    \/ x.rating # y.rating /\ RatLeq(x.rating, y.rating)
    \/ x.rating = y.rating /\ ScoreLeq(DocField(x, "install_count"),
                                       DocField(y, "install_count"))

PaddedEntry(doc) ==
    [server_id |-> doc.server_id, trending_score |-> RatTimesInt(doc.rating, 10),
     install_velocity |-> IF "install_count" \in DOMAIN doc
                          THEN RatNorm(doc.install_count, 30 * 24) ELSE <<0, 1>>,
     momentum_change |-> <<0, 1>>,
     recent_installs |-> 0, previous_installs |-> 0,
     trend_period |-> "all-time"]

\* the Find on Collection("stats"): rating >= 4.0, server_id not in
\* serverIDs, sorted, limited to remaining
TopRated(coll, serverIDs, remaining) ==
    LET docs == {d \in coll : d.server_id \notin serverIDs /\ RatLeq(<<4, 1>>, d.rating)}
    IN {Take(p, remaining) :
          p \in SortedDesc(docs, [x \in docs, y \in docs |-> TopRatedLeq(x, y)])}

\* the lists CalculateTrending may return
TrendingResults(act, coll, limit, findOK) ==
    LET tops == {Take(p, limit) :
                   p \in SortedDesc(ActiveIds(act),
                                    [x \in ActiveIds(act), y \in ActiveIds(act) |->
                                       RatLeq(TrendingScore(act[x]), TrendingScore(act[y]))])}
        entries(top) == [i \in DOMAIN top |-> TrendingEntry(top[i], act[top[i]])]
        n(top) == Cardinality(DOMAIN top)
        pads(top) ==
            IF n(top) < limit /\ findOK
            THEN {[i \in DOMAIN p |-> PaddedEntry(p[i])] :
                    p \in TopRated(coll, {top[i] : i \in DOMAIN top}, limit - n(top))}
            ELSE {<<>>}
    IN UNION {{Cat(entries(top), pad) : pad \in pads(top)} : top \in tops}

CalculateLimitInputs == {1, 2, 3}

\* a call of CalculateTrending(ctx, limit) and what it returns
CalculateTrending(t, limit, dbOK, findOK) ==
    LET r == [NoHReq EXCEPT !.op = "CalculateTrending", !.n = nreq + 1,
                            !.dbOK = dbOK, !.findOK = findOK]
    IN /\ Accept(t)
       /\ IF ~dbOK
          THEN Respond(t, r, 500, NoBody, NoBody)
          ELSE \E res \in TrendingResults(activity, StatsCollection, limit, findOK) :
                  Respond(t, r, 200, [limit |-> limit, servers |-> res],
                          [limit |-> limit, servers |-> res])
       /\ UNCHANGED <<cache, feedback, catalog>>
       /\ UNCHANGED storeVars
       /\ UNCHANGED analyticsVars

\* --------------------------------------------------------------- SpecCache
\* the read-through cache under one client that waits for each response:
\* the reads, and the two mutations that invalidate
FirstThread == CHOOSE t \in Threads : \A u \in Threads : t <= u

NextCache ==
    \/ Tick /\ UNCHANGED analyticsVars
    \/ Cleanup /\ UNCHANGED analyticsVars
    \/ \E id \in Servers, s \in {"", "COMMUNITY", "bogus"}, agg \in BOOLEAN :
          GetStatsHandler(FirstThread, id, s, agg) /\ UNCHANGED analyticsVars
    \/ \E s \in {"", "COMMUNITY"} : GetGlobalStatsHandler(FirstThread, s)
             /\ UNCHANGED analyticsVars
    \/ \E q \in Queries : GetServersHandler(FirstThread, q)
             /\ UNCHANGED analyticsVars
    \/ \E dbOK \in BOOLEAN : HandlerRead(FirstThread, dbOK)
             /\ UNCHANGED analyticsVars
    \/ HandlerSet(FirstThread) /\ UNCHANGED analyticsVars
    \/ \E id \in Servers, s \in {"", "COMMUNITY", "bogus"}, dbOK \in BOOLEAN :
          TrackInstallHandler(FirstThread, id, s, dbOK)
             /\ UNCHANGED analyticsVars
    \/ TrackInstallInvalidate(FirstThread) /\ UNCHANGED analyticsVars
    \/ \E id \in Servers, u \in {"u1", ""}, s \in {"", "COMMUNITY"},
          r \in RatingInputs, dbOK \in BOOLEAN :
          SubmitFeedbackHandler(FirstThread, id, u, s, r, dbOK)
             /\ UNCHANGED analyticsVars
    \/ \E dbOK \in BOOLEAN : SubmitFeedbackWrite(FirstThread, dbOK)
             /\ UNCHANGED analyticsVars
    \/ \E dbOK \in BOOLEAN : SubmitFeedbackRating(FirstThread, dbOK)
             /\ UNCHANGED analyticsVars
    \/ \E dbOK \in BOOLEAN : SubmitFeedbackRatingUpdate(FirstThread, dbOK)
             /\ UNCHANGED analyticsVars
    \/ SubmitFeedbackInvalidate(FirstThread) /\ UNCHANGED analyticsVars
    \/ \E dbOK \in BOOLEAN : SubmitFeedbackRespond(FirstThread, dbOK)
             /\ UNCHANGED analyticsVars

SpecCache == Init /\ [][NextCache]_vars

\* ------------------------------------------------------------ SpecFeedback
\* valid ratings submitted by concurrent requests (SpecRate submits the
\* invalid ones); nothing here reads the clock but the timestamps written,
\* so the clock stands still
NextFeedback ==
    \/ \E t \in Threads, id \in Servers, u \in Users, dbOK \in BOOLEAN :
          SubmitFeedbackHandler(t, id, u, "", 5, dbOK)
             /\ UNCHANGED analyticsVars
    \/ \E t \in Threads, dbOK \in BOOLEAN : SubmitFeedbackWrite(t, dbOK)
             /\ UNCHANGED analyticsVars
    \/ \E t \in Threads, dbOK \in BOOLEAN : SubmitFeedbackRating(t, dbOK)
             /\ UNCHANGED analyticsVars
    \/ \E t \in Threads, dbOK \in BOOLEAN : SubmitFeedbackRatingUpdate(t, dbOK)
             /\ UNCHANGED analyticsVars
    \/ \E t \in Threads : SubmitFeedbackInvalidate(t)
             /\ UNCHANGED analyticsVars
    \/ \E t \in Threads, dbOK \in BOOLEAN : SubmitFeedbackRespond(t, dbOK)
             /\ UNCHANGED analyticsVars

SpecFeedback == Init /\ [][NextFeedback]_vars

\* --------------------------------------------------------------- SpecClaim
\* claims by concurrent requests, next to installs that fill the stats store;
\* the clock stands still
NextClaim ==
    \/ \E t \in Threads, id \in Servers :
          TrackInstallHandler(t, id, "COMMUNITY", TRUE)
             /\ UNCHANGED analyticsVars
    \/ \E t \in Threads : TrackInstallInvalidate(t) /\ UNCHANGED analyticsVars
    \/ \E t \in Threads, id \in ClaimIds, a \in AuthInputs, bodyOK \in BOOLEAN,
          transfer \in BOOLEAN :
          ClaimServerHandler(t, id, a, bodyOK, transfer)
             /\ UNCHANGED analyticsVars
    \/ \E t \in Threads, publishOK \in BOOLEAN : ClaimPublish(t, publishOK)
             /\ UNCHANGED analyticsVars
    \/ \E t \in Threads, dbOK \in BOOLEAN : ClaimTransfer(t, dbOK)
             /\ UNCHANGED analyticsVars
    \/ \E t \in Threads, dbOK \in BOOLEAN : ClaimUpsert(t, dbOK)
             /\ UNCHANGED analyticsVars
    \/ \E t \in Threads : ClaimInvalidate(t) /\ UNCHANGED analyticsVars
    \/ \E t \in Threads, dbOK \in BOOLEAN : ClaimRespond(t, dbOK)
             /\ UNCHANGED analyticsVars

SpecClaim == Init /\ [][NextClaim]_vars

\* -------------------------------------------------------- SpecFeedbackEdit
\* users rate, then update and delete feedback by its id, in concurrent
\* requests; the clock stands still
NextFeedbackEdit ==
    \/ \E t \in Threads, id \in Servers, u \in Users, dbOK \in BOOLEAN :
          SubmitFeedbackHandler(t, id, u, "", 5, dbOK)
             /\ UNCHANGED analyticsVars
    \/ \E t \in Threads, dbOK \in BOOLEAN : SubmitFeedbackWrite(t, dbOK)
             /\ UNCHANGED analyticsVars
    \/ \E t \in Threads, dbOK \in BOOLEAN : SubmitFeedbackRating(t, dbOK)
             /\ UNCHANGED analyticsVars
    \/ \E t \in Threads, dbOK \in BOOLEAN : SubmitFeedbackRatingUpdate(t, dbOK)
             /\ UNCHANGED analyticsVars
    \/ \E t \in Threads : SubmitFeedbackInvalidate(t)
             /\ UNCHANGED analyticsVars
    \/ \E t \in Threads, dbOK \in BOOLEAN : SubmitFeedbackRespond(t, dbOK)
             /\ UNCHANGED analyticsVars
    \/ \E t \in Threads, n \in PartCounts, id \in Servers, f \in FeedbackIds,
          u \in Users \cup {""}, r \in {4, 6}, dbOK \in BOOLEAN :
          UpdateFeedbackHandler(t, n, id, f, u, r, dbOK)
             /\ UNCHANGED analyticsVars
    \/ \E t \in Threads, dbOK \in BOOLEAN : UpdateFeedbackWrite(t, dbOK)
             /\ UNCHANGED analyticsVars
    \/ \E t \in Threads, dbOK \in BOOLEAN : UpdateFeedbackRating(t, dbOK)
             /\ UNCHANGED analyticsVars
    \/ \E t \in Threads, dbOK \in BOOLEAN : UpdateFeedbackRatingUpdate(t, dbOK)
             /\ UNCHANGED analyticsVars
    \/ \E t \in Threads : UpdateFeedbackRespond(t) /\ UNCHANGED analyticsVars
    \/ \E t \in Threads, n \in PartCounts, id \in Servers, f \in FeedbackIds,
          u \in Users \cup {""}, dbOK \in BOOLEAN :
          DeleteFeedbackHandler(t, n, id, f, u, dbOK) /\ UNCHANGED analyticsVars

SpecFeedbackEdit == Init /\ [][NextFeedbackEdit]_vars

\* ---------------------------------------------------------- SpecClaimCache
\* one client that waits for each response reads stats, installs and claims;
\* the clock stands still, so every entry set stays within its TTL
NextClaimCache ==
    \/ \E id \in Servers, s \in {"", "REGISTRY", "COMMUNITY"}, agg \in BOOLEAN :
          GetStatsHandler(FirstThread, id, s, agg) /\ UNCHANGED analyticsVars
    \/ \E s \in {"", "COMMUNITY"} : GetGlobalStatsHandler(FirstThread, s)
             /\ UNCHANGED analyticsVars
    \/ \E dbOK \in BOOLEAN : HandlerRead(FirstThread, dbOK)
             /\ UNCHANGED analyticsVars
    \/ HandlerSet(FirstThread) /\ UNCHANGED analyticsVars
    \/ \E id \in Servers, dbOK \in BOOLEAN :
          TrackInstallHandler(FirstThread, id, "COMMUNITY", dbOK)
             /\ UNCHANGED analyticsVars
    \/ TrackInstallInvalidate(FirstThread) /\ UNCHANGED analyticsVars
    \/ \E id \in Servers, a \in {"none", "repo"}, transfer \in BOOLEAN :
          ClaimServerHandler(FirstThread, id, a, TRUE, transfer)
             /\ UNCHANGED analyticsVars
    \/ \E publishOK \in BOOLEAN : ClaimPublish(FirstThread, publishOK)
             /\ UNCHANGED analyticsVars
    \/ \E dbOK \in BOOLEAN : ClaimTransfer(FirstThread, dbOK)
             /\ UNCHANGED analyticsVars
    \/ \E dbOK \in BOOLEAN : ClaimUpsert(FirstThread, dbOK)
             /\ UNCHANGED analyticsVars
    \/ ClaimInvalidate(FirstThread) /\ UNCHANGED analyticsVars
    \/ \E dbOK \in BOOLEAN : ClaimRespond(FirstThread, dbOK)
             /\ UNCHANGED analyticsVars

SpecClaimCache == Init /\ [][NextClaimCache]_vars

\* ---------------------------------------------------------------- SpecRate
\* one client that waits for each response rates a server and asks whether a
\* user has rated it; the clock stands still
NextRate ==
    \/ \E id \in Servers, u \in {"u1", ""}, r \in {4, 5, 6}, dbOK \in BOOLEAN :
          SubmitFeedbackHandler(FirstThread, id, u, "", r, dbOK)
             /\ UNCHANGED analyticsVars
    \/ \E dbOK \in BOOLEAN : SubmitFeedbackWrite(FirstThread, dbOK)
             /\ UNCHANGED analyticsVars
    \/ \E dbOK \in BOOLEAN : SubmitFeedbackRating(FirstThread, dbOK)
             /\ UNCHANGED analyticsVars
    \/ \E dbOK \in BOOLEAN : SubmitFeedbackRatingUpdate(FirstThread, dbOK)
             /\ UNCHANGED analyticsVars
    \/ SubmitFeedbackInvalidate(FirstThread) /\ UNCHANGED analyticsVars
    \/ \E dbOK \in BOOLEAN : SubmitFeedbackRespond(FirstThread, dbOK)
             /\ UNCHANGED analyticsVars
    \/ \E id \in Servers, u \in Users, s \in {"", "COMMUNITY"}, dbOK \in BOOLEAN :
          \E parts \in RatingPaths(id, u) :
             GetUserFeedbackHandler(FirstThread, parts, s, dbOK)
             /\ UNCHANGED analyticsVars

SpecRate == Init /\ [][NextRate]_vars

\* --------------------------------------------------------------- SpecRoute
\* requests to /vp/servers/{id}/..., up to the choice of the handler
NextRoute ==
    \/ \E t \in Threads, method \in RouteMethods, id \in RouteIds,
          suffix \in RouteSuffixes :
          Dispatch(t, method, id, suffix) /\ UNCHANGED analyticsVars

SpecRoute == Init /\ [][NextRoute]_vars

\* ----------------------------------------------------------- SpecDashboard
\* GET /vp/analytics/dashboard, with the cache expiring as the clock advances
NextDashboard ==
    \/ Tick /\ UNCHANGED analyticsVars
    \/ Cleanup /\ UNCHANGED analyticsVars
    \/ \E t \in Threads, p \in PeriodInputs, ext \in ClientInputs, localOK \in BOOLEAN :
          GetDashboardMetricsHandler(t, p, ext, localOK)
             /\ UNCHANGED analyticsVars

SpecDashboard == Init /\ [][NextDashboard]_vars

\* ---------------------------------------------------------- SpecMilestones
\* CheckAndRecordMilestones called by concurrent goroutines
NextMilestones ==
    \/ \E t \in Threads, total \in TotalInstallsInputs, dbOK \in BOOLEAN :
          CheckAndRecordMilestones(t, total, dbOK)
             /\ UNCHANGED <<storeVars, httpVars, adb, acall, cacheLog>>
    \/ \E t \in Threads, countOK \in BOOLEAN :
          MilestoneCount(t, countOK) /\ UNCHANGED <<storeVars, httpVars, adb, acall, cacheLog>>
    \/ \E t \in Threads, insertOK \in BOOLEAN :
          MilestoneInsert(t, insertOK) /\ UNCHANGED <<storeVars, httpVars, adb, acall, cacheLog>>

SpecMilestones == Init /\ [][NextMilestones]_vars

\* ------------------------------------------------------------ SpecTrending
\* the trending queries over a server_stats collection that holds a record
\* for each of three servers: a rated 4.5, b rated 4.2 and c rated 3.9, each
\* by 5 or by 40 users
TrendRatings == {<<9, 2>>, <<21, 5>>, <<39, 10>>}
TrendRatingOf == [id \in TrendServers |->
                    IF id = "a" THEN <<9, 2>> ELSE IF id = "b" THEN <<21, 5>> ELSE <<39, 10>>]
TrendCounts == {5, 40}
TrendDoc(rating, count) ==
    [ZeroStats EXCEPT !.rating = rating, !.rating_count = count,
                      !.source = SourceRegistry, !.first_seen = 1, !.last_updated = 1]
TrendingStatsInputs ==
    {[k \in TrendServers \X {SourceRegistry} |-> TrendDoc(TrendRatingOf[k[1]], c[k[1]])] :
        c \in [TrendServers -> TrendCounts]}
\* the registry knows every server, or all but c
TrendingCatalogInputs ==
    {[id \in D |-> [owner |-> SourceRegistry]] : D \in {TrendServers, TrendServers \ {"c"}}}

InitTrending ==
    /\ stats \in TrendingStatsInputs
    /\ catalog \in TrendingCatalogInputs
    /\ mu = NoThread
    /\ clock = 1
    /\ pc = [t \in Threads |-> "idle"]
    /\ req = [t \in Threads |-> NoReq]
    /\ ops = 0
    /\ okInstalls = [k \in Keys |-> 0]
    /\ okRatings = [k \in Keys |-> EmptyBag]
    /\ xferLog = NoTransfer
    /\ cache = [k \in {} |-> NoEntry]
    /\ feedback = <<>>
    /\ hpc = [t \in Threads |-> "idle"]
    /\ hreq = [t \in Threads |-> NoHReq]
    /\ resp = NoResp
    /\ nreq = 0
    /\ milestones = <<>>
    /\ mile = [t \in Threads |-> NoMile]
    /\ adb = NoDocuments
    /\ acall = [t \in Threads |-> NoACall]
    /\ cacheLog = NoCacheLog

NextTrending ==
    \/ \E limit \in TrendingLimitInputs, source \in TrendingSourceInputs, dbOK \in BOOLEAN :
          GetTrendingHandler(FirstThread, limit, source, dbOK)
             /\ UNCHANGED analyticsVars
    \/ \E id \in TrendServers : RecordActivity(FirstThread, "install", id)
    \/ \E insertOK \in BOOLEAN : RecordActivityInsert(FirstThread, insertOK)
    \/ \E outcome \in SetOutcomes : RecordActivityCounters(FirstThread, outcome)
    \/ DayPasses
    \/ \E limit \in CalculateLimitInputs, dbOK \in BOOLEAN, findOK \in BOOLEAN :
          CalculateTrending(FirstThread, limit, dbOK, findOK)

SpecTrending == InitTrending /\ [][NextTrending]_vars

\* ------------------------------------------------------------ SpecActivity
\* RecordActivity called by concurrent goroutines while time passes
ActivityTick ==
    /\ \E t \in Threads : acall[t].phase # "idle"
    /\ Tick
    /\ UNCHANGED analyticsVars

NextActivity ==
    \/ ActivityTick
    \/ \E t \in Threads, type \in EventTypes : RecordActivity(t, type, "a")
    \/ \E t \in Threads, insertOK \in BOOLEAN : RecordActivityInsert(t, insertOK)
    \/ \E t \in Threads, outcome \in SetOutcomes : RecordActivityCounters(t, outcome)

SpecActivity == Init /\ [][NextActivity]_vars

\* ------------------------------------------------------------ SpecAPICalls
\* TrackAPICall called by concurrent goroutines
NextAPICalls ==
    \/ \E t \in Threads, e \in Endpoints, m \in Methods, d \in Durations,
          isError \in BOOLEAN, findOK \in BOOLEAN :
          TrackAPICall(t, e, m, d, isError, findOK)
    \/ \E t \in Threads, updateOK \in BOOLEAN : TrackAPICallUpdate(t, updateOK)
    \/ \E t \in Threads, outcome \in SetOutcomes : TrackAPICallGlobal(t, outcome)

SpecAPICalls == Init /\ [][NextAPICalls]_vars

\* -------------------------------------------------------------- SpecHealth
\* the monitor's checks and the uptime query
NextHealth ==
    \/ Tick /\ UNCHANGED analyticsVars
    \/ \E id \in HealthServers, urlOK \in BOOLEAN, doOK \in BOOLEAN, code \in StatusCodes,
          rt \in ResponseTimes, findOK \in BOOLEAN, updateOK \in BOOLEAN :
          checkServerHealth(id, urlOK, doOK, code, rt, findOK, updateOK)
    \/ \E dbOK \in BOOLEAN : GetUptimePercentage(FirstThread, dbOK)

SpecHealth == Init /\ [][NextHealth]_vars

\* -------------------------------------------------------------- SpecGrowth
\* growth queries over every combination of window counts
NextGrowth ==
    \E metric \in GrowthMetricInputs, current \in WindowCounts, previous \in WindowCounts,
       prior \in WindowCounts :
       GetGrowthMetrics(FirstThread, metric, current, previous, prior)

SpecGrowth == Init /\ [][NextGrowth]_vars

\* -------------------------------------------------------------- SpecSource
\* the reads of a server_stats collection that holds a REGISTRY record of
\* server a and a COMMUNITY record of server b
SourceDoc(source, installs, count) ==
    [ZeroStats EXCEPT !.source = source, !.installation_count = installs,
                      !.rating = <<9, 2>>, !.rating_count = count,
                      !.first_seen = 1, !.last_updated = 1]
SourceStatsInputs ==
    {[k \in {<<"a", SourceRegistry>>, <<"b", SourceCommunity>>} |->
        SourceDoc(k[2], IF k[1] = "a" THEN i ELSE 3, c)] : i \in {1, 5}, c \in {4, 5}}
ReadLimitInputs == {0, 1, 2}

InitSource ==
    /\ stats \in SourceStatsInputs
    /\ catalog = [id \in {"a", "b"} |-> [owner |-> SourceRegistry]]
    /\ mu = NoThread
    /\ clock = 1
    /\ pc = [t \in Threads |-> "idle"]
    /\ req = [t \in Threads |-> NoReq]
    /\ ops = 0
    /\ okInstalls = [k \in Keys |-> 0]
    /\ okRatings = [k \in Keys |-> EmptyBag]
    /\ xferLog = NoTransfer
    /\ cache = [k \in {} |-> NoEntry]
    /\ feedback = <<>>
    /\ hpc = [t \in Threads |-> "idle"]
    /\ hreq = [t \in Threads |-> NoHReq]
    /\ resp = NoResp
    /\ nreq = 0
    /\ milestones = <<>>
    /\ mile = [t \in Threads |-> NoMile]
    /\ adb = NoDocuments
    /\ acall = [t \in Threads |-> NoACall]
    /\ cacheLog = NoCacheLog

NextSource ==
    \E query \in StatsQueries, limit \in ReadLimitInputs, source \in SourceInputs \cup {"ALL"} :
       ReadStats(FirstThread, query, limit, source)

SpecSource == InitSource /\ [][NextSource]_vars

\* ----------------------------------------------------------------- SpecAll
\* the writes of the store called directly with the sources a caller may
\* spell, the query sentinel ALL among them
WriteSourceInputs == {"", "REGISTRY", "ALL", "bogus"}

NextAll ==
    \/ Tick /\ UNCHANGED analyticsVars
    \/ \E t \in Threads, id \in Servers, s \in WriteSourceInputs, dbOK \in BOOLEAN :
          IncrementInstallCount(t, id, s, dbOK) /\ UNCHANGED httpVars
             /\ UNCHANGED analyticsVars
    \/ \E t \in Threads, id \in Servers, s \in WriteSourceInputs, r \in RatingValues,
          dbOK \in BOOLEAN :
          UpdateRatingFind(t, id, s, r, dbOK) /\ UNCHANGED httpVars
             /\ UNCHANGED analyticsVars
    \/ \E t \in Threads, dbOK \in BOOLEAN :
          UpdateRatingUpdate(t, dbOK) /\ UNCHANGED httpVars
             /\ UNCHANGED analyticsVars

SpecAll == Init /\ [][NextAll]_vars

\* ---------------------------------------------------------------- SpecCORS
NextCORS ==
    \E origins \in OriginLists, origin \in OriginInputs, method \in MethodInputs :
       CORS(FirstThread, origins, origin, method)

SpecCORS == Init /\ [][NextCORS]_vars

\* -------------------------------------------------------- SpecCacheService
\* the cache called directly while time passes and the sweeper runs
NextCacheService ==
    \/ Tick /\ UNCHANGED analyticsVars
    \/ Cleanup /\ UNCHANGED analyticsVars
    \/ \E key \in ServiceKeys : CacheServiceGet(FirstThread, key)
    \/ \E key \in ServiceKeys, value \in ServiceValues : CacheServiceSet(key, value)
    \/ \E key \in ServiceKeys : CacheServiceDelete(key)

SpecCacheService == Init /\ [][NextCacheService]_vars

\* -------------------------------------------------------------------- Spec
\* the store driven directly by its callers
Next ==
    \/ Tick /\ UNCHANGED analyticsVars
    \/ \E t \in Threads, id \in Servers, s \in SourceInputs, dbOK \in BOOLEAN :
          IncrementInstallCount(t, id, s, dbOK) /\ UNCHANGED httpVars
             /\ UNCHANGED analyticsVars
    \/ \E t \in Threads, id \in Servers, s \in RatingSourceInputs, r \in RatingValues,
          dbOK \in BOOLEAN :
          UpdateRatingFind(t, id, s, r, dbOK) /\ UNCHANGED httpVars
             /\ UNCHANGED analyticsVars
    \/ \E t \in Threads, dbOK \in BOOLEAN :
          UpdateRatingUpdate(t, dbOK) /\ UNCHANGED httpVars
             /\ UNCHANGED analyticsVars
    \/ \E t \in Threads, id \in Servers, dbOK \in BOOLEAN :
          TransferStatsFind(t, id, id, SourceCommunity, SourceRegistry, dbOK)
             /\ UNCHANGED httpVars /\ UNCHANGED analyticsVars
    \/ \E t \in Threads, dbOK \in BOOLEAN :
          TransferStatsUpsert(t, dbOK) /\ UNCHANGED httpVars
             /\ UNCHANGED analyticsVars

Spec == Init /\ [][Next]_vars

\* ------------------------------------------------- db.mu as sync.RWMutex
\* the calls below are the same store calls with every Lock, RLock and
\* Unlock a step of its own.  A goroutine at "lock" has called db.mu.Lock()
\* and waits; one at "gas_rlock" has called GetAggregatedStats and waits in
\* its RLock; at "gas_inner" it holds that read lock and is about to call
\* GetStatsByServerID; at "gas_read" it holds the read lock twice.
Readers == {t \in Threads : pc[t] \in {"gas_inner", "gas_read"}}
WriterPending == \E t \in Threads : pc[t] = "lock"
\* Lock returns once no reader and no writer holds the mutex
RWLock(t) == CanLock(t) /\ Readers = {}
\* RLock returns unless a writer holds the mutex or waits for it
RWRLock == CanRLock /\ ~WriterPending

\* a writer enters its call and reaches db.mu.Lock()
LockCall(t, op, id, source, rating) ==
    /\ pc[t] = "idle"
    /\ ops < MaxOps
    /\ ops' = ops + 1
    /\ pc' = [pc EXCEPT ![t] = "lock"]
    /\ req' = [req EXCEPT ![t] = [NoReq EXCEPT !.op = op, !.key = <<id, "">>,
                                               !.source = source, !.rating = rating]]
    /\ UNCHANGED <<stats, mu, clock, okInstalls, okRatings, xferLog>>

\* IncrementInstallCount from the Lock it obtained to its deferred Unlock
IncrementInstallLocked(t, dbOK) ==
    LET r == req[t]
        v == ValidateSource(DefaultSource(r.source))
        key == <<r.key[1], v.value>>
    IN /\ pc[t] = "lock"
       /\ r.op = "IncrementInstallCount"
       /\ RWLock(t)
       /\ IF v.ok /\ dbOK
          THEN /\ stats' = Put(stats, key, IncrementInstallDoc(stats, key, v.value, clock))
               /\ okInstalls' = [okInstalls EXCEPT ![key] = @ + 1]
          ELSE UNCHANGED <<stats, okInstalls>>
       /\ pc' = [pc EXCEPT ![t] = "idle"]
       /\ req' = [req EXCEPT ![t] = NoReq]
       /\ UNCHANGED <<mu, clock, ops, okRatings, xferLog>>

\* UpdateRating from the Lock it obtained to the FindOne of the current
\* document; UpdateRatingUpdate is the rest
UpdateRatingLocked(t, dbOK) ==
    LET r == req[t]
        src == DefaultSource(r.source)
        v == ValidateSource(src)
        key == <<r.key[1], v.value>>
    IN /\ pc[t] = "lock"
       /\ r.op = "UpdateRating"
       /\ RWLock(t)
       /\ IF v.ok /\ dbOK
          THEN /\ mu' = t
               /\ pc' = [pc EXCEPT ![t] = "ur_update"]
               /\ req' = [req EXCEPT ![t] = [r EXCEPT !.key = key, !.source = src,
                                                      !.cur = FindOne(stats, key)]]
          ELSE /\ mu' = mu
               /\ pc' = [pc EXCEPT ![t] = "idle"]
               /\ req' = [req EXCEPT ![t] = NoReq]
       /\ UNCHANGED <<stats, clock, ops, okInstalls, okRatings, xferLog>>

\* GetAggregatedStats is called and reaches its db.mu.RLock()
GetAggregatedStatsCall(t, serverID) ==
    /\ pc[t] = "idle"
    /\ ops < MaxOps
    /\ ops' = ops + 1
    /\ pc' = [pc EXCEPT ![t] = "gas_rlock"]
    /\ req' = [req EXCEPT ![t] = [NoReq EXCEPT !.op = "GetAggregatedStats",
                                               !.key = <<serverID, "">>]]
    /\ UNCHANGED <<stats, mu, clock, okInstalls, okRatings, xferLog>>

\* its RLock returns; the next thing it does is call GetStatsByServerID
GetAggregatedStatsRLock(t) ==
    /\ pc[t] = "gas_rlock"
    /\ RWRLock
    /\ pc' = [pc EXCEPT ![t] = "gas_inner"]
    /\ UNCHANGED <<stats, mu, clock, req, ops, okInstalls, okRatings, xferLog>>

\* the db.mu.RLock() of GetStatsByServerID returns, and its Find
GetStatsByServerID(t) ==
    /\ pc[t] = "gas_inner"
    /\ RWRLock
    /\ pc' = [pc EXCEPT ![t] = "gas_read"]
    /\ req' = [req EXCEPT ![t].cur =
                 [ZeroStats EXCEPT
                    !.installation_count = GetAggregatedStats(stats, req[t].key[1]).installation_count,
                    !.rating = GetAggregatedStats(stats, req[t].key[1]).rating,
                    !.rating_count = GetAggregatedStats(stats, req[t].key[1]).rating_count]]
    /\ UNCHANGED <<stats, mu, clock, ops, okInstalls, okRatings, xferLog>>

\* both deferred RUnlocks, and the return of the sums
GetAggregatedStatsReturn(t) ==
    /\ pc[t] = "gas_read"
    /\ pc' = [pc EXCEPT ![t] = "idle"]
    /\ req' = [req EXCEPT ![t] = NoReq]
    /\ UNCHANGED <<stats, mu, clock, ops, okInstalls, okRatings, xferLog>>

\* ------------------------------------------------------------------ SpecRW
\* GetAggregatedStats next to the writers, every lock operation a step
RWStep(t) ==
    \/ \E dbOK \in BOOLEAN : IncrementInstallLocked(t, dbOK)
    \/ \E dbOK \in BOOLEAN : UpdateRatingLocked(t, dbOK)
    \/ \E dbOK \in BOOLEAN : UpdateRatingUpdate(t, dbOK)
    \/ GetAggregatedStatsRLock(t)
    \/ GetStatsByServerID(t)
    \/ GetAggregatedStatsReturn(t)

NextRW ==
    \/ Tick /\ UNCHANGED analyticsVars
    \/ \E t \in Threads, id \in Servers, s \in {"", SourceCommunity} :
          LockCall(t, "IncrementInstallCount", id, s, 0)
             /\ UNCHANGED httpVars /\ UNCHANGED analyticsVars
    \/ \E t \in Threads, id \in Servers, s \in {"", SourceCommunity}, r \in RatingValues :
          LockCall(t, "UpdateRating", id, s, r)
             /\ UNCHANGED httpVars /\ UNCHANGED analyticsVars
    \/ \E t \in Threads, id \in Servers :
          GetAggregatedStatsCall(t, id) /\ UNCHANGED httpVars /\ UNCHANGED analyticsVars
    \/ \E t \in Threads : RWStep(t) /\ UNCHANGED httpVars /\ UNCHANGED analyticsVars

SpecRW == Init /\ [][NextRW]_vars
              /\ \A t \in Threads :
                    WF_vars(RWStep(t) /\ UNCHANGED httpVars /\ UNCHANGED analyticsVars)

\* --------------------------------------------------------------- SpecReads
\* the feedback list and the server detail read through the cache, next to
\* installs and ratings that fill the stores; any store read may fail
NextReads ==
    \/ Tick /\ UNCHANGED analyticsVars
    \/ Cleanup /\ UNCHANGED analyticsVars
    \/ \E t \in Threads, id \in Servers, s \in {"", SourceCommunity} :
          GetServerFeedbackHandler(t, id, s) /\ UNCHANGED analyticsVars
    \/ \E t \in Threads, dbOK \in BOOLEAN :
          GetServerFeedbackRead(t, dbOK) /\ UNCHANGED analyticsVars
    \/ \E t \in Threads, id \in ClaimIds, s \in {"", "bogus"} :
          GetServerByIDHandler(t, id, s) /\ UNCHANGED analyticsVars
    \/ \E t \in Threads, dbOK \in BOOLEAN :
          GetServerByIDRead(t, dbOK) /\ UNCHANGED analyticsVars
    \/ \E t \in Threads : HandlerSet(t) /\ UNCHANGED analyticsVars
    \/ \E t \in Threads, id \in Servers :
          TrackInstallHandler(t, id, "", TRUE) /\ UNCHANGED analyticsVars
    \/ \E t \in Threads : TrackInstallInvalidate(t) /\ UNCHANGED analyticsVars
    \/ \E t \in Threads, id \in Servers, u \in Users :
          SubmitFeedbackHandler(t, id, u, "", 5, TRUE) /\ UNCHANGED analyticsVars
    \/ \E t \in Threads : SubmitFeedbackWrite(t, TRUE) /\ UNCHANGED analyticsVars
    \/ \E t \in Threads : SubmitFeedbackRating(t, TRUE) /\ UNCHANGED analyticsVars
    \/ \E t \in Threads : SubmitFeedbackRatingUpdate(t, TRUE) /\ UNCHANGED analyticsVars
    \/ \E t \in Threads : SubmitFeedbackInvalidate(t) /\ UNCHANGED analyticsVars
    \/ \E t \in Threads : SubmitFeedbackRespond(t, TRUE) /\ UNCHANGED analyticsVars

SpecReads == Init /\ [][NextReads]_vars

\* --------------------------------------------------------------- SpecStale
\* concurrent requests: GET /vp/servers/{id}/stats and POST .../install, both
\* for the default source, whose key vp:stats:<id> the install invalidates
NextStale ==
    \/ Tick /\ UNCHANGED analyticsVars
    \/ \E t \in Threads, id \in Servers :
          GetStatsHandler(t, id, "", FALSE) /\ UNCHANGED analyticsVars
    \/ \E t \in Threads, dbOK \in BOOLEAN : HandlerRead(t, dbOK) /\ UNCHANGED analyticsVars
    \/ \E t \in Threads : HandlerSet(t) /\ UNCHANGED analyticsVars
    \/ \E t \in Threads, id \in Servers, dbOK \in BOOLEAN :
          TrackInstallHandler(t, id, "", dbOK) /\ UNCHANGED analyticsVars
    \/ \E t \in Threads : TrackInstallInvalidate(t) /\ UNCHANGED analyticsVars

SpecStale == Init /\ [][NextStale]_vars

\* ---------------------------------------------------------------- SpecSync
\* the four writers of the stats store, called directly
NextSync ==
    \/ Tick /\ UNCHANGED analyticsVars
    \/ \E t \in Threads, id \in Servers, s \in {"", SourceCommunity} :
          IncrementInstallCount(t, id, s, TRUE) /\ UNCHANGED httpVars
             /\ UNCHANGED analyticsVars
    \/ \E t \in Threads, id \in Servers, s \in {"", SourceCommunity} :
          UpdateRatingFind(t, id, s, 5, TRUE) /\ UNCHANGED httpVars
             /\ UNCHANGED analyticsVars
    \/ \E t \in Threads :
          UpdateRatingUpdate(t, TRUE) /\ UNCHANGED httpVars /\ UNCHANGED analyticsVars
    \/ \E t \in Threads :
          SyncAnalyticsData(t) /\ UNCHANGED httpVars /\ UNCHANGED analyticsVars
    \/ \E t \in Threads, updates \in SyncInputs :
          \E applied \in 0..Len(updates) :
             SyncAnalyticsBulkWrite(t, updates, applied)
                /\ UNCHANGED httpVars /\ UNCHANGED analyticsVars
    \/ \E t \in Threads, id \in Servers :
          TransferStatsFind(t, id, id, SourceCommunity, SourceRegistry, TRUE)
             /\ UNCHANGED httpVars /\ UNCHANGED analyticsVars
    \/ \E t \in Threads :
          TransferStatsUpsert(t, TRUE) /\ UNCHANGED httpVars /\ UNCHANGED analyticsVars

SpecSync == Init /\ [][NextSync]_vars

\* ---------------------------------------------------------------- SpecLive
\* a goroutine inside a store call that can take its next step takes it:
\* the Go scheduler runs every runnable goroutine
StoreStep(t) ==
    \/ \E dbOK \in BOOLEAN :
          UpdateRatingUpdate(t, dbOK) /\ UNCHANGED httpVars /\ UNCHANGED analyticsVars
    \/ \E dbOK \in BOOLEAN :
          TransferStatsUpsert(t, dbOK) /\ UNCHANGED httpVars /\ UNCHANGED analyticsVars

SpecLive == Init /\ [][Next]_vars /\ \A t \in Threads : WF_vars(StoreStep(t))

IsPrefix(p, k) == Len(p) <= Len(k) /\ SubSeq(k, 1, Len(p)) = p
C10_Covered(k, id, s) ==
    \/ k \in {<<"vp", "server", id>>, <<"vp", "stats", id>>,
              <<"vp", "stats", id, s>>, <<"vp", "stats", id, "aggregated">>}
    \/ IsPrefix(<<"vp", "servers">>, k)
    \/ IsPrefix(<<"vp", "stats", "global">>, k)
    \/ IsPrefix(<<"vp", "feedback", id, s>>, k)
C10_NoEntryRemains ==
    (resp.op \in {"TrackInstall", "SubmitFeedback"} /\ resp.status = 200
        /\ resp.n = nreq /\ \A t \in Threads : hpc[t] = "idle") =>
        \A k \in DOMAIN cache :
            CacheLive(cache, k, clock) => ~C10_Covered(k, resp.id, resp.source)

\* C2: two TransferStats(A, A, COMMUNITY, REGISTRY) calls made in succession,
\* with no other call after them, both return, and leave the target
\* (A, REGISTRY) with the installation_count, rating_count and rating that
\* the first call left
C2_TransferIdempotent ==
    (xferLog.runs >= 2 /\ ops = xferLog.lastOp) =>
        /\ xferLog.status = "returned"
        /\ \A id \in Servers :
              Counters(FindOne(stats, <<id, SourceRegistry>>)) = xferLog.once

\* C3: with one client that waits for each response, every 200 answer of
\* GET /vp/servers/{id}/stats (plain, per source or aggregated) carries what
\* the store holds when it is written, also right after an install or a rating
C3_ReadAfterWrite ==
    (resp.op \in {"GetStats", "GetAggregatedStats"} /\ resp.status = 200) =>
        resp.body = resp.fresh

\* C4: the feedback store never holds two records with the same
\* (server_id, user_id, source), and a submit answered 409 left exactly the
\* one record that was there
C4_OneFeedbackPerUser ==
    /\ \A i, j \in 1..Len(feedback) :
          (/\ feedback[i].server_id = feedback[j].server_id
           /\ feedback[i].user_id = feedback[j].user_id
           /\ feedback[i].source = feedback[j].source) => i = j
    /\ (resp.op = "SubmitFeedback" /\ resp.status = 409) =>
          Cardinality({i \in 1..Len(feedback) :
                          /\ feedback[i].server_id = resp.id
                          /\ feedback[i].user_id = resp.user
                          /\ feedback[i].source = resp.source}) = 1

C4_Witness ==
    /\ resp.op = "SubmitFeedback" /\ resp.status = 409
    /\ Len(feedback) = 1
    /\ feedback[1].user_id = resp.user

\* C5: every stats record, and every merged record a TransferStats call has
\* computed for its target, has install_count >= 0, rating_count >= 0,
\* 0 <= rating <= 5, and rating_count = 0 exactly when rating = 0
C5_RecordOK(s) ==
    /\ s.installation_count >= 0
    /\ s.rating_count >= 0
    /\ RatLeq(<<0, 1>>, s.rating)
    /\ RatLeq(s.rating, <<5, 1>>)
    /\ (s.rating_count = 0) <=> (s.rating = <<0, 1>>)
C5_RecordInvariant ==
    /\ \A k \in DOMAIN stats : C5_RecordOK(stats[k])
    /\ \A t \in Threads :
          (req[t].op = "TransferStats" /\ pc[t] = "hung") =>
              C5_RecordOK(MergedStats(req[t].tgt, req[t].tgtExists, req[t].cur,
                                      req[t].key[2], req[t].source))

C5_Witness ==
    \E t \in Threads :
        /\ req[t].op = "TransferStats" /\ pc[t] = "hung"
        /\ req[t].tgtExists /\ req[t].tgt.installation_count > 0
        /\ req[t].cur.rating_count > 0

\* C6: once a TransferStats call that found the community record is over,
\* the target holds the summed counters, the count-weighted mean rating,
\* claimed_from = COMMUNITY and its former analytics fields, and the community
\* record is still there with its counters and with claimed_to = X
C6_TransferMerges ==
    \A t \in Threads :
        (req[t].op = "TransferStats" /\ pc[t] = "hung" /\ req[t].cur # ZeroStats) =>
            LET r == req[t]
                sourceKey == <<r.key[1], r.source>>
                want == MergedStats(r.tgt, r.tgtExists, r.cur, r.key[2], r.source)
            IN /\ Found(stats, r.key)
               /\ Counters(stats[r.key]) = Counters(want)
               /\ stats[r.key].claimed_from = SourceCommunity
               /\ stats[r.key].active_installs = r.tgt.active_installs
               /\ Found(stats, sourceKey)
               /\ Counters(stats[sourceKey]) = Counters(r.cur)
               /\ stats[sourceKey].claimed_to = r.key[1]

\* C7: a claim request has the catalog upserted only after the token, the
\* body, the target and the repository access were all verified, enters the
\* stats store only after the upsert succeeded, and a claim answered with an
\* error status changes neither the catalog nor the stats
C7_ClaimStateOrder ==
    \A t \in Threads :
        hreq[t].op = "Claim" =>
            /\ hreq[t].published =>
                  hreq[t].auth = "repo" /\ hreq[t].bodyOK /\ hreq[t].exists
            /\ hreq[t].transferCalled => hreq[t].published
C7_ClaimStepOrder ==
    /\ catalog' # catalog =>
          \E t \in Threads :
              /\ hreq[t].op = "Claim" /\ ~hreq[t].published /\ hreq'[t].published
              /\ hreq[t].auth = "repo" /\ hreq[t].bodyOK /\ hreq[t].exists
    /\ \A t \in Threads :
          (hreq[t].op = "Claim" /\ pc'[t] # pc[t]) => hreq[t].published
    /\ (resp' # resp /\ resp'.op = "Claim" /\ resp'.status # 200) =>
          catalog' = catalog /\ stats' = stats
C7_ClaimOrder == [](C7_ClaimStateOrder) /\ [][C7_ClaimStepOrder]_vars

C7_Witness ==
    \E t \in Threads :
        /\ hpc[t] = "hung" /\ hreq[t].op = "Claim"
        /\ hreq[t].published /\ hreq[t].transferCalled
        /\ catalog[hreq[t].id].owner = SourceRegistry

C9_InstallCount ==
    \A k \in Keys :
        okInstalls[k] > 0 =>
            /\ Found(stats, k)
            /\ stats[k].installation_count = okInstalls[k]
            /\ stats[k].first_seen <= stats[k].last_updated

C9_Witness ==
    \E k \in Keys :
        /\ okInstalls[k] = 2
        /\ stats[k].installation_count = 2
        /\ stats[k].first_seen < stats[k].last_updated

\* C11: right after a claim of server id was answered 200, the cache holds no
\* live entry under vp:server:<id>, vp:stats:<id>, vp:stats:<id>:REGISTRY,
\* vp:stats:<id>:COMMUNITY, vp:stats:<id>:aggregated, nor under a key that
\* begins with vp:stats:global
C11_Covered(k, id) ==
    \/ k \in {<<"vp", "server", id>>, <<"vp", "stats", id>>,
              <<"vp", "stats", id, SourceRegistry>>,
              <<"vp", "stats", id, SourceCommunity>>,
              <<"vp", "stats", id, "aggregated">>}
    \/ IsPrefix(<<"vp", "stats", "global">>, k)
C11_ClaimInvalidates ==
    (resp.op = "Claim" /\ resp.status = 200 /\ resp.n = nreq
        /\ \A t \in Threads : hpc[t] = "idle") =>
        \A k \in DOMAIN cache :
            CacheLive(cache, k, clock) => ~C11_Covered(k, resp.id)

\* C12: a feedback update or delete that names an existing feedback with a
\* user_id other than its author's, and that passes the request validation
\* with the store answering, is answered 404, as for an unknown feedback id,
\* and leaves the feedback records as they were
C12_MismatchStep ==
    (/\ resp' # resp
     /\ resp'.op \in {"UpdateFeedback", "DeleteFeedback"}
     /\ resp'.status \notin {400, 500}
     /\ \E i \in 1..Len(feedback) :
           feedback[i].id = resp'.fid /\ feedback[i].user_id # resp'.user) =>
        resp'.status = 404 /\ feedback' = feedback
C12_MismatchIsNotFound == [][C12_MismatchStep]_vars

\* C13: a claim request with no Authorization header, or with one that is
\* not a Bearer token, is answered 401; a claim with a valid token that has
\* no access to the repository of its (valid) publish request for an
\* existing server is answered 403
C13_ClaimAuthStatus ==
    resp.op = "Claim" =>
        /\ resp.auth \in {"none", "basic"} => resp.status = 401
        /\ (resp.auth = "token" /\ resp.bodyOK /\ resp.exists) => resp.status = 403

C13_Witness ==
    /\ resp.op = "Claim" /\ resp.auth = "token" /\ resp.bodyOK /\ resp.exists
    /\ resp.status = 403
    /\ catalog[resp.id].owner = SourceCommunity

\* C14: the milestones collection never holds two records with the same
\* (type, milestone), however the CheckAndRecordMilestones runs interleave
\* or repeat
C14_OneMilestoneRecord ==
    \A i, j \in 1..Len(milestones) :
        (milestones[i].type = milestones[j].type
            /\ milestones[i].milestone = milestones[j].milestone) => i = j

\* C15: a dashboard request with a valid period whose external client is
\* configured and fails is answered 200 with a DashboardMetrics payload, as
\* when the client answers, and is answered 500 only when the local
\* analytics store fails too
C15_DashboardFallback ==
    (resp.op = "GetDashboard" /\ resp.ext = "fail" /\ resp.status # 400) =>
        /\ resp.status \in {200, 500}
        /\ resp.status = 500 => ~resp.dbOK
        /\ resp.status = 200 => resp.body.type = "DashboardMetrics"
        /\ (resp.dbOK \/ resp.hit) => resp.status = 200

C15_Witness ==
    /\ resp.op = "GetDashboard" /\ resp.ext = "fail" /\ ~resp.hit
    /\ resp.status = 200
    /\ resp.body = DashboardPayload("local", "day")

\* C16: a request to /vp/servers/{id}/<suffix> with a non-empty id reaches
\* the handler that its method and the segments after the id name, whatever
\* the id is: POST install the install handler, POST rate the rating
\* handler, GET stats the stats handler, POST claim the claim handler and GET
\* of the id alone the detail handler
C16_Expected(method, suffix) ==
    IF method = "POST" /\ suffix = << <<"install">> >> THEN "TrackInstallHandler"
    ELSE IF method = "POST" /\ suffix = << <<"rate">> >> THEN "SubmitFeedbackHandler"
    ELSE IF method = "GET" /\ suffix = << <<"stats">> >> THEN "GetStatsHandler"
    ELSE IF method = "POST" /\ suffix = << <<"claim">> >> THEN "ClaimServerHandler"
    ELSE IF method = "GET" /\ suffix = <<>> THEN "GetServerByIDHandler"
    ELSE "any"
C16_RouteBySuffix ==
    (resp.path # <<>> /\ C16_Expected(resp.method, Tail(resp.path)) # "any") =>
        resp.op = C16_Expected(resp.method, Tail(resp.path))

\* C17: POST /vp/servers/{id}/rate with a rating in [1,5], a valid source and
\* no user_id is accepted: unless the store fails it is answered 200 with the
\* stats, whose rating_count counts the rating
C17_RateWithoutUser ==
    (/\ resp.op = "SubmitFeedback" /\ resp.user = ""
     /\ resp.rating \in 1..5
     /\ resp.source \in {SourceRegistry, SourceCommunity}
     /\ resp.status # 500) =>
        /\ resp.status = 200
        /\ resp.body # NoBody => resp.body.rating_count >= 1

\* C18: a GET /vp/servers/{id}/rating/{u} that follows the 200 answer to a
\* rating of server id by user u, for the same source and with the store
\* answering, is answered 200 with has_rated = true and the rating just
\* submitted, also when that rating replaced an earlier one
C18_RatedStep ==
    (/\ resp.op = "SubmitFeedback" /\ resp.status = 200
     /\ resp' # resp /\ resp'.op = "GetUserFeedback"
     /\ resp'.path = <<resp.id, "rating", resp.user>>
     /\ resp'.source = resp.source /\ resp'.dbOK) =>
        /\ resp'.status = 200
        /\ resp'.body = [has_rated |-> TRUE, rating |-> resp.rating]
C18_HasRated == [][C18_RatedStep]_vars

\* C19: with no install activity, every server known to the registry and
\* three stats records rated 4.5, 4.2 and 3.9, each with rating_count >= 5,
\* GET /vp/stats/trending?limit=2 returns exactly the servers rated 4.5 and
\* 4.2, each with trend_period = "all-time"
C19_Scenario ==
    /\ \A id \in TrendServers : activity[id] = NoActivity
    /\ DOMAIN catalog = TrendServers
    /\ {stats[k].rating : k \in DOMAIN stats} = TrendRatings
    /\ Cardinality(DOMAIN stats) = 3
    /\ \A k \in DOMAIN stats : stats[k].rating_count >= 5
C19_TopRatedIds == {k[1] : k \in {x \in DOMAIN stats : stats[x].rating \in {<<9, 2>>, <<21, 5>>}}}
C19_TrendingStep ==
    (/\ resp' # resp /\ resp'.op = "GetTrending" /\ resp'.status = 200
     /\ resp'.body.limit = 2
     /\ C19_Scenario) =>
        LET servers == resp'.body.servers
        IN /\ {servers[i].id : i \in DOMAIN servers} = C19_TopRatedIds
           /\ \A i \in DOMAIN servers :
                 /\ "trend_period" \in DOMAIN servers[i]
                 /\ servers[i].trend_period = "all-time"
C19_TrendingTopRated == [][C19_TrendingStep]_vars

\* C20: CalculateTrending(limit), when its queries succeed, returns at most
\* limit entries with pairwise distinct server_ids: first the servers with
\* install activity, by descending trending_score, as many as limit allows;
\* then, when these are fewer than limit, the stats records with rating >=
\* 4.0 of servers not yet included, by descending rating, as many as are
\* still missing, each with trend_period "all-time" and momentum_change 0
C20_Eligible ==
    {k[1] : k \in {x \in DOMAIN stats : RatLeq(<<4, 1>>, stats[x].rating)}}
        \ ActiveIds(activity)
C20_TrendingStep ==
    (/\ resp' # resp /\ resp'.op = "CalculateTrending" /\ resp'.status = 200
     /\ resp'.findOK) =>
        LET out == resp'.body.servers
            limit == resp'.body.limit
            act == {i \in DOMAIN out : out[i].trend_period = "24h"}
            pad == DOMAIN out \ act
        IN /\ Cardinality(DOMAIN out) <= limit
           /\ \A i, j \in DOMAIN out : i # j => out[i].server_id # out[j].server_id
           /\ \A i \in act, j \in pad : i < j
           /\ {out[i].server_id : i \in act} \subseteq ActiveIds(activity)
           /\ Cardinality(act) = MinOf(limit, Cardinality(ActiveIds(activity)))
           /\ \A i, j \in act : i < j => RatLeq(out[j].trending_score, out[i].trending_score)
           /\ {out[i].server_id : i \in pad} \subseteq C20_Eligible
           /\ Cardinality(pad) = MinOf(limit - Cardinality(act), Cardinality(C20_Eligible))
           /\ \A i, j \in pad : i < j => RatLeq(out[j].trending_score, out[i].trending_score)
           /\ \A i \in pad : out[i].trend_period = "all-time"
                               /\ out[i].momentum_change = <<0, 1>>
C20_CalculateTrending == [][C20_TrendingStep]_vars

\* C21: a RecordActivity call whose event was inserted and whose counters
\* update reached the database leaves each counter of the event's type
\* (install: total_installs and installs_today, rating: total_ratings,
\* search: total_searches) one higher than it was
C21_CounterStep ==
    \A t \in Threads :
        (/\ acall[t].op = "RecordActivity"
         /\ acall[t].phase = "counters"
         /\ acall'[t].phase = "idle"
         /\ acall'[t].err # "unavailable") =>
            \A f \in DOMAIN ActivityUpdates(acall[t].type) :
                CounterOf(adb'.metricsCollection, f) = CounterOf(adb.metricsCollection, f) + 1
C21_CountersGrow == [][C21_CounterStep]_vars

\* C22: each TrackAPICall whose UpdateOne is applied leaves the record of its
\* (endpoint, method) with one more in count and with the running mean
\* avg_duration' = (avg_duration * count + duration) / (count + 1), however
\* the calls interleave
C22_MeanStep ==
    \A t \in Threads :
        (/\ acall[t].op = "TrackAPICall"
         /\ acall[t].phase = "update"
         /\ acall'[t].phase = "global") =>
            LET k == <<acall[t].endpoint, acall[t].method>>
                old == FindAPICall(adb.apiCallsCollection, k)
                new == FindAPICall(adb'.apiCallsCollection, k)
            IN /\ new.count = old.count + 1
               /\ RatTimesInt(new.avg_duration, new.count)
                     = RatPlus(RatTimesInt(old.avg_duration, old.count),
                               RatOfInt(acall[t].duration))
C22_CountAndMean == [][C22_MeanStep]_vars

\* C30: the events of activity_events carry non-decreasing timestamps in
\* insertion order
C30_TimestampsOrdered ==
    \A i, j \in DOMAIN adb.activityCollection :
        i < j => adb.activityCollection[i].timestamp <= adb.activityCollection[j].timestamp

\* C23: every record of server_health has a status among healthy, slow,
\* degraded and down that agrees with the probe it records: healthy only for
\* 200 <= code < 400 answered within 1000 ms, slow only for more than 1000 ms
\* and code < 500, degraded only for 400 <= code < 500, down only for
\* code >= 500 or a request that could not be made or completed
C23_Code(h) == IF h.message[1] = "HTTP" THEN h.message[2] ELSE 0
C23_StatusDetermined ==
    \A id \in DOMAIN adb.healthCollection :
        LET h == adb.healthCollection[id]
            answered == h.message[1] = "HTTP"
            code == C23_Code(h)
        IN /\ h.status \in {"healthy", "slow", "degraded", "down"}
           /\ h.status = "healthy" =>
                 answered /\ 200 <= code /\ code < 400 /\ h.response_time <= 1000
           /\ h.status = "slow" => answered /\ h.response_time > 1000 /\ code < 500
           /\ h.status = "degraded" => answered /\ 400 <= code /\ code < 500
           /\ h.status = "down" => (~answered \/ code >= 500)
           /\ ~answered => h.status = "down"

\* C24: GetUptimePercentage returns the mean of the availability values of
\* the server_health records when there is a record, and 99.9 only when
\* there is none
C24_UptimeIsMean ==
    (resp.op = "GetUptimePercentage" /\ resp.status = 200 /\ resp.n = nreq) =>
        LET coll == adb.healthCollection
        IN IF DOMAIN coll = {}
           THEN resp.body.uptime = <<999, 10>>
           ELSE resp.body.uptime
                   = RatDivInt(TotalAvailability(coll, DOMAIN coll), Cardinality(DOMAIN coll))

\* C25: a growth answer, for each of the six metrics, has trend "new" only
\* when the window before the previous one holds no data; when it holds data
\* the trend is accelerating for a momentum above 0, decelerating for a
\* momentum below -5 and steady otherwise
C25_TrendClassified ==
    (resp.op = "GetGrowthMetrics" /\ resp.status = 200) =>
        LET g == resp.body
        IN /\ g.trend = "new" => resp.fresh.prior = 0
           /\ resp.fresh.prior > 0 =>
                 g.trend = IF g.momentum[1] > 0 THEN "accelerating"
                           ELSE IF g.momentum[1] < (-5) * g.momentum[2] THEN "decelerating"
                           ELSE "steady"

\* C26: an empty source is taken as REGISTRY: ValidateSource("") yields
\* REGISTRY, and what GetGlobalStats, GetTopByInstalls, GetTopByRating,
\* GetRecentServers and GetTrending return for the source "" is a result of
\* the same read with the source REGISTRY
C26_EmptyIsRegistry ==
    (resp.op \in StatsQueries /\ resp.status = 200 /\ resp.source = "") =>
        /\ resp.body \in ReadResults(stats, resp.op, resp.fid, SourceRegistry)
        /\ ValidateSource(resp.source).value = SourceRegistry

\* C27: no document of server_stats and no document of server_feedback has
\* the source ALL: a write called with the source ALL stores nothing
C27_NoAllPersisted ==
    /\ \A k \in DOMAIN stats : stats[k].source # "ALL"
    /\ \A i \in 1..Len(feedback) : feedback[i].source # "ALL"

\* C28: a response carries Access-Control-Allow-Credentials or
\* Access-Control-Allow-Origin only if the request's Origin equals an entry
\* of the allow-list; the headers then are "true" and the request's Origin
C28_CredentialsOnlyForListed ==
    resp.op = "CORS" =>
        LET h == resp.body.header
            origins == resp.fresh.origins
            listed == \E i \in 1..Len(origins) : origins[i] = resp.body.origin
        IN /\ "Access-Control-Allow-Credentials" \in DOMAIN h =>
                 listed /\ h["Access-Control-Allow-Credentials"] = "true"
           /\ "Access-Control-Allow-Origin" \in DOMAIN h =>
                 listed /\ h["Access-Control-Allow-Origin"] = resp.body.origin

\* C29: a Get that reports a hit returns the value of the most recent Set of
\* its key, no Delete of the key followed that Set, and the Set happened at
\* most one ttl ago: an entry past its ttl is never returned, swept or not
C29_GetStep(maxAge) ==
    (resp'.op = "CacheService.Get" /\ nreq' = nreq + 1 /\ resp'.n = nreq' /\ resp'.hit) =>
        LET last == cacheLog[resp'.body.key]
        IN /\ last.set
           /\ resp'.body.data = last.value
           /\ clock - last.at <= maxAge
C29_HitWithinTTL == [][C29_GetStep(CacheTTL)]_vars

\* a hit on an entry set exactly one ttl ago, and an expired entry that the
\* sweeper has not removed
C29_Witness ==
    /\ resp.op = "CacheService.Get" /\ resp.hit /\ resp.n = nreq
    /\ clock - cacheLog[resp.body.key].at = CacheTTL
    /\ \E k \in DOMAIN cache : clock > cache[k].expiresAt

\* C29 as stated: the Set of a hit happened less than one ttl ago
C29_HitBeforeTTL == [][C29_GetStep(CacheTTL - 1)]_vars

\* C31: every TransferStats call that was started eventually returns, and
\* db.mu is then no longer held by its goroutine
C31_TransferReturns ==
    \A t \in Threads :
        (req[t].op = "TransferStats" /\ pc[t] # "idle") ~> (pc[t] = "idle" /\ mu # t)

\* C32: every GetAggregatedStats call that was started eventually returns,
\* whatever IncrementInstallCount and UpdateRating calls run next to it
C32_AggregatedReturns ==
    \A t \in Threads :
        (req[t].op = "GetAggregatedStats" /\ pc[t] # "idle") ~> (pc[t] = "idle")

\* C33: a claim with transfer_stats = true whose TransferStats call returned
\* an error is not answered 200 with success = true
C33_RespondStep ==
    \A t \in Threads :
        (/\ hreq[t].op = "Claim" /\ hpc[t] = "cl_respond" /\ hpc'[t] = "idle"
         /\ hreq[t].transfer /\ hreq[t].transferCalled /\ ~hreq[t].transferred) =>
            resp'.status # 200
C33_FailedTransferFails == [][C33_RespondStep]_vars

\* C34: when GetServerFeedbackHandler or GetServerByIDHandler writes its
\* cache entry, the store read the entry was built from had succeeded
C34_SetStep ==
    \A t \in Threads :
        (/\ hreq[t].op \in {"GetServerFeedback", "GetServerByID"}
         /\ hpc[t] = "set" /\ hpc'[t] = "idle"
         /\ hreq[t].key \in DOMAIN cache') => hreq[t].dbOK
C34_NoStandInCached == [][C34_SetStep]_vars

\* C35: a GET of a server's stats that is answered from the cache while no
\* write handler is running, so that every write made so far has returned,
\* carries what the store holds: nothing read before one of those writes
C35_HitStep ==
    (/\ nreq' = nreq + 1 /\ resp'.n = nreq' /\ resp'.op = "GetStats"
     /\ resp'.status = 200
     /\ \A u \in Threads : hpc[u] \in {"idle", "read", "set"}) =>
        resp'.body = resp'.fresh
C35_NoStaleHit == [][C35_HitStep]_vars

\* C36: whenever no feedback handler is running, the rating_count stored
\* for (server_id, source) is the number of feedback records of that
\* (server_id, source)
C36_CountIsFeedback ==
    (\A t \in Threads : hpc[t] = "idle") =>
        \A k \in Keys :
            FindOne(stats, k).rating_count =
                Cardinality({i \in 1..Len(feedback) :
                                feedback[i].server_id = k[1] /\ feedback[i].source = k[2]})

\* C37: when a TransferStats(X, X, COMMUNITY, REGISTRY) call that found the
\* community record stops, GetAggregatedStats(X) has the total_installs and
\* total_rating_count it had before, and the (X, REGISTRY) record holds them:
\* the counters were moved, not counted under both sources
C37_TransferStep ==
    \A t \in Threads :
        (req[t].op = "TransferStats" /\ pc[t] = "ts_upsert" /\ pc'[t] # "ts_upsert") =>
            LET before == GetAggregatedStats(stats, req[t].key[1])
                after == GetAggregatedStats(stats', req[t].key[1])
                target == FindOne(stats', req[t].key)
            IN /\ after.installation_count = before.installation_count
               /\ after.rating_count = before.rating_count
               /\ target.installation_count = after.installation_count
               /\ target.rating_count = after.rating_count
C37_TransferConserves == [][C37_TransferStep]_vars

\* C38: every stored health record carries the availability of the table
\* for its own status: healthy 99.9, slow 95, degraded 75, down 0, any
\* other status 50
C38_Table(status) ==
    CASE status = "healthy" -> <<999, 10>>
      [] status = "slow" -> <<95, 1>>
      [] status = "degraded" -> <<75, 1>>
      [] status = "down" -> <<0, 1>>
      [] OTHER -> <<50, 1>>
C38_AvailabilityOfStatus ==
    \A id \in DOMAIN adb.healthCollection :
        adb.healthCollection[id].availability = C38_Table(adb.healthCollection[id].status)

\* C39: a SyncAnalyticsData call leaves the installation_count, rating,
\* rating_count and (server_id, source) of every record as they were, and
\* every record it creates has a server id and one of the two sources as key
C39_SyncStep ==
    \A t \in Threads :
        (pc[t] = "sync_write" /\ pc'[t] = "idle") =>
            /\ \A k \in DOMAIN stats :
                  /\ k \in DOMAIN stats'
                  /\ Counters(stats'[k]) = Counters(stats[k])
                  /\ stats'[k].source = stats[k].source
            /\ \A k \in DOMAIN stats' \ DOMAIN stats :
                  k[1] \in Servers /\ k[2] \in {SourceRegistry, SourceCommunity}
C39_SyncFrame == [][C39_SyncStep]_vars

\* C40: no step of IncrementInstallCount, UpdateRating, SyncAnalyticsData or
\* TransferStats removes a stats record or changes its first_seen
C40_Step ==
    \A k \in DOMAIN stats :
        k \in DOMAIN stats' /\ stats'[k].first_seen = stats[k].first_seen
C40_FirstSeenFixed == [][C40_Step]_vars

\* a record written again after the clock moved on, and a TransferStats
\* call that found the community record and has stopped
C40_Witness ==
    /\ \E k \in DOMAIN stats :
          stats[k].first_seen > 0 /\ stats[k].last_updated > stats[k].first_seen
    /\ \E t \in Threads :
          req[t].op = "TransferStats" /\ req[t].cur # ZeroStats /\ pc[t] = "hung"
====
